---- MODULE Spec2Model ----
(***************************************************************************)
(* Model of the transform / composition authoring tools of usd_mcp:        *)
(*   tool_set_xform_in_file, tool_get_xform_in_file      (tools/tier2.py)  *)
(*   tool_author_variants_in_file                        (tools/tier3.py)  *)
(*   tool_batch_set_attribute_values_in_file             (tools/tier0.py)  *)
(*                                                                         *)
(* Every tool is stateless: it opens the document from its file, edits the *)
(* opened stage in memory and saves the root layer at the end.  The state  *)
(* is therefore the persisted document (disk) and a record of the last     *)
(* call (its arguments, the document it found, its result).                *)
(*                                                                         *)
(* A document is a function from node paths to nodes.  A node has a type,  *)
(* a direct ("local") prim spec, one variant set with a prim spec per      *)
(* variant, and a variant selection.  Opinions compose local > selected    *)
(* variant > referenced document.  Optional values are sequences of length *)
(* 0 or 1.  Time codes are not modelled: every value is the default-time   *)
(* value.                                                                  *)
(***************************************************************************)
EXTENDS Integers, Sequences, FiniteSets, TLC

VARIABLES disk, last, calls

vars == <<disk, last, calls>>

-----------------------------------------------------------------------------
(* Bounds *)

\* number of tool calls in one behaviour
MaxCalls == 2

-----------------------------------------------------------------------------
(* Optional values *)

None == <<>>
Some(v) == <<v>>
IsSome(o) == Len(o) > 0
Val(o) == o[1]

-----------------------------------------------------------------------------
(* 4x4 matrices, row-vector convention of Gf.Matrix4d: the translation is  *)
(* the fourth row.  Rotations are multiples of 90 degrees so that every    *)
(* entry is an integer.                                                    *)

Identity == << <<1,0,0,0>>, <<0,1,0,0>>, <<0,0,1,0>>, <<0,0,0,1>> >>

MatMul(A, B) ==
  [i \in 1..4 |-> [j \in 1..4 |->
      A[i][1]*B[1][j] + A[i][2]*B[2][j] + A[i][3]*B[3][j] + A[i][4]*B[4][j]]]

TranslateM(v) == << <<1,0,0,0>>, <<0,1,0,0>>, <<0,0,1,0>>, <<v[1],v[2],v[3],1>> >>

ScaleM(v) == << <<v[1],0,0,0>>, <<0,v[2],0,0>>, <<0,0,v[3],0>>, <<0,0,0,1>> >>

Cos90(a) == CASE a % 360 = 0 -> 1 [] a % 360 = 90 -> 0
              [] a % 360 = 180 -> -1 [] OTHER -> 0

Sin90(a) == CASE a % 360 = 0 -> 0 [] a % 360 = 90 -> 1
              [] a % 360 = 180 -> 0 [] OTHER -> -1

RotXM(a) == << <<1,0,0,0>>, <<0,Cos90(a),Sin90(a),0>>,
               <<0,-Sin90(a),Cos90(a),0>>, <<0,0,0,1>> >>

RotYM(a) == << <<Cos90(a),0,-Sin90(a),0>>, <<0,1,0,0>>,
               <<Sin90(a),0,Cos90(a),0>>, <<0,0,0,1>> >>

RotZM(a) == << <<Cos90(a),Sin90(a),0,0>>, <<-Sin90(a),Cos90(a),0,0>>,
               <<0,0,1,0>>, <<0,0,0,1>> >>

\* rotateXYZ op: X is applied first
RotateXYZM(v) == MatMul(MatMul(RotXM(v[1]), RotYM(v[2])), RotZM(v[3]))

-----------------------------------------------------------------------------
(* Fixed-point numbers for the geometric size attributes (radius, height,  *)
(* size): a value x is stored as the integer 2 * x, so that scale.x * 0.5  *)
(* is exact for every whole scale.                                         *)

ToFix(n) == n * 2
TimesHalf(f) == f \div 2

-----------------------------------------------------------------------------
(* The documents *)

NodePaths == {"/W", "/W/G"}

\* GetParent(): "/W" is a root node
ParentOf(n) == IF n = "/W/G" THEN Some("/W") ELSE None

NodeTypes == {"Xform", "Cube", "Sphere", "Cone"}

AttrNames == {"radius", "height", "size"}

\* attributes a typed schema defines without their being authored
BuiltinAttrs(type) ==
  CASE type = "Sphere" -> {"radius"}
    [] type = "Cone" -> {"radius", "height"}
    [] type = "Cube" -> {"size"}
    [] OTHER -> {}

VariantNames == {"default", "b", "c", "zz"}

\* prims of the document that are materials, and other prims
Materials == {"/Mat"}

\* The documents a reference can name.  "A" declares a default node and
\* carries a scale op; "B" declares a default node and no transform; "D"
\* declares no default node; "M" does not exist.
AssetInfo(a) ==
  CASE a = "A" -> [exists |-> TRUE, defaultPrim |-> "/Root",
                   s |-> Some(<<2,2,2>>), order |-> Some(<<"scale">>)]
    [] a = "B" -> [exists |-> TRUE, defaultPrim |-> "/Model",
                   s |-> None, order |-> None]
    [] a = "D" -> [exists |-> TRUE, defaultPrim |-> "",
                   s |-> None, order |-> None]
    [] OTHER -> [exists |-> FALSE, defaultPrim |-> "",
                 s |-> None, order |-> None]

EmptySpec ==
  [refs |-> <<>>, bind |-> None, order |-> None,
   t |-> None, r |-> None, s |-> None, m |-> None,
   attrs |-> [a \in AttrNames |-> None]]

NewNode(type) ==
  [type |-> type, local |-> EmptySpec, hasSet |-> FALSE, variants |-> <<>>,
   vspec |-> [v \in VariantNames |-> EmptySpec], sel |-> None]

SetName == "modelVariant"

\* a reference: the target document and the internal node path ("" for none)
RefTo(asset, prim) == [asset |-> asset, prim |-> prim]

-----------------------------------------------------------------------------
(* Composition *)

Range(s) == {s[i] : i \in 1..Len(s)}

\* the variant whose opinions apply: the selection, when it names a variant
ActiveVariant(node) ==
  IF IsSome(node.sel) /\ Val(node.sel) \in Range(node.variants)
    THEN node.sel ELSE None

\* local opinion, then the selected variant's
SpecsUnder(node, active) ==
  <<node.local>> \o (IF IsSome(active) THEN <<node.vspec[Val(active)]>> ELSE <<>>)

AuthoredSpecs(node) == SpecsUnder(node, ActiveVariant(node))

RECURSIVE ConcatRefs(_)
ConcatRefs(specs) ==
  IF specs = <<>> THEN <<>> ELSE Head(specs).refs \o ConcatRefs(Tail(specs))

ComposedRefs(node) == ConcatRefs(AuthoredSpecs(node))

\* a reference contributes opinions when its document exists and names a node
RefResolves(ref) ==
  AssetInfo(ref.asset).exists
  /\ (ref.prim # "" \/ AssetInfo(ref.asset).defaultPrim # "")

RECURSIVE FirstSome(_)
FirstSome(opts) ==
  IF opts = <<>> THEN None
  ELSE IF IsSome(Head(opts)) THEN Head(opts) ELSE FirstSome(Tail(opts))

\* the opinions of the referenced documents, one per reference
RefOpinions(refs) ==
  [i \in 1..Len(refs) |->
     IF RefResolves(refs[i])
       THEN [s |-> AssetInfo(refs[i].asset).s, order |-> AssetInfo(refs[i].asset).order]
     ELSE [s |-> None, order |-> None]]

\* the opinions on one field, strongest first: the authored specs, then the
\* referenced documents (which hold opinions on s and order only)
Opinions(sp, refs, field) ==
  [i \in 1..Len(sp) |-> sp[i][field]] \o
  (IF field \in {"s", "order"}
     THEN [i \in 1..Len(refs) |-> RefOpinions(refs)[i][field]]
   ELSE <<>>)

RefScales(node) == Opinions(<<>>, ComposedRefs(node), "s")

RefOrders(node) == Opinions(<<>>, ComposedRefs(node), "order")

ComposedField(sp, field) == FirstSome(Opinions(sp, ConcatRefs(sp), field))

OrEmpty(o) == IF IsSome(o) THEN Val(o) ELSE <<>>

\* GetOrderedXformOps(): the strongest xformOpOrder opinion
ComposedOrder(node) == OrEmpty(ComposedField(AuthoredSpecs(node), "order"))

OpField(kind) ==
  CASE kind = "translate" -> "t"
    [] kind = "rotate" -> "r"
    [] kind = "scale" -> "s"
    [] OTHER -> "m"

\* op.Get(time): the strongest value opinion of an op attribute
ComposedOpValue(node, kind) == ComposedField(AuthoredSpecs(node), OpField(kind))

AttrOpinions(sp, a) == [i \in 1..Len(sp) |-> sp[i].attrs[a]]

ComposedAttr(node, a) == FirstSome(AttrOpinions(AuthoredSpecs(node), a))

ComposedBind(node) == ComposedField(AuthoredSpecs(node), "bind")

\* prim.HasAuthoredReferences()
HasAuthoredReferences(node) == Len(ComposedRefs(node)) > 0

-----------------------------------------------------------------------------
(* Edit targets: None is the root layer's direct spec, Some(v) the spec of *)
(* variant v.                                                              *)

GetSpec(node, tgt) == IF IsSome(tgt) THEN node.vspec[Val(tgt)] ELSE node.local

PutSpec(node, tgt, spec) ==
  IF IsSome(tgt) THEN [node EXCEPT !.vspec[Val(tgt)] = spec]
  ELSE [node EXCEPT !.local = spec]

SetOpValue(spec, kind, v) == [spec EXCEPT ![OpField(kind)] = Some(v)]

\* element membership of a sequence
InSeq(x, s) == \E i \in 1..Len(s) : s[i] = x

\* UsdGeomXformable::AddXformOp: fails when the op is already in the order,
\* otherwise appends it to the composed order, authored at the edit target
AddXformOpFails(node, kind) == InSeq(kind, ComposedOrder(node))

AddXformOp(node, tgt, kind) ==
  PutSpec(node, tgt,
    [GetSpec(node, tgt) EXCEPT !.order = Some(Append(ComposedOrder(node), kind))])

\* UsdGeomXformable::SetXformOpOrder
SetXformOpOrder(node, tgt, ops) ==
  PutSpec(node, tgt, [GetSpec(node, tgt) EXCEPT !.order = Some(ops)])

\* the op orders UsdGeomXformCommonAPI accepts: translate, rotate, scale,
\* each at most once, in that order
CommonOrder(kinds) ==
  (IF "translate" \in kinds THEN <<"translate">> ELSE <<>>) \o
  (IF "rotate" \in kinds THEN <<"rotate">> ELSE <<>>) \o
  (IF "scale" \in kinds THEN <<"scale">> ELSE <<>>)

XformCommonCompatible(order) ==
  /\ Range(order) \subseteq {"translate", "rotate", "scale"}
  /\ order = CommonOrder(Range(order))

\* UsdGeomXformCommonAPI::SetTranslate / SetRotate / SetScale: on an
\* incompatible op order nothing is authored (the call returns false);
\* otherwise the op is created in its place if absent and its value is set
XapiSetUnder(node, tgt, kind, v, ord) ==
  IF ~XformCommonCompatible(ord) THEN node
  ELSE IF InSeq(kind, ord)
    THEN PutSpec(node, tgt, SetOpValue(GetSpec(node, tgt), kind, v))
  ELSE PutSpec(node, tgt,
         SetOpValue([GetSpec(node, tgt) EXCEPT
                       !.order = Some(CommonOrder(Range(ord) \cup {kind}))],
                    kind, v))

XapiSet(node, tgt, kind, v) == XapiSetUnder(node, tgt, kind, v, ComposedOrder(node))

\* `if value is not None: xapi.Set...(value)`
XapiSetOpt(node, tgt, kind, ov) ==
  IF IsSome(ov) THEN XapiSet(node, tgt, kind, Val(ov)) ELSE node

\* translate, rotate and scale through the common API, in that order
XapiSetAll(node, tgt, t, r, s) ==
  XapiSetOpt(XapiSetOpt(XapiSetOpt(node, tgt, "translate", t), tgt, "rotate", r),
             tgt, "scale", s)

\* op.Set(m) on the matrix op
SetMatrixValue(node, tgt, m) ==
  PutSpec(node, tgt, SetOpValue(GetSpec(node, tgt), "transform", m))

\* attr.Set(value) at the edit target
SetAttr(node, tgt, a, v) ==
  PutSpec(node, tgt, [GetSpec(node, tgt) EXCEPT !.attrs[a] = Some(v)])

\* prim.GetAttribute(a) is a valid attribute
AttrExists(node, a) ==
  a \in BuiltinAttrs(node.type) \/ IsSome(ComposedAttr(node, a))

-----------------------------------------------------------------------------
(* Results of a tool call: the code returned ("ok", an error code, or      *)
(* "raised" when an exception leaves the tool), the stage in memory when   *)
(* the tool returned, whether the root layer was saved and whether the     *)
(* document was opened.                                                    *)

Result(code, mem, saved, opened) ==
  [code |-> code, mem |-> mem, saved |-> saved, opened |-> opened]

\* root.Save() at the end of a tool: saveOk is the outcome of the write
SaveAndReturn(mem, saveOk) ==
  IF saveOk THEN Result("ok", mem, TRUE, TRUE)
  ELSE Result("save_failed", mem, FALSE, TRUE)

-----------------------------------------------------------------------------
(* tool_set_xform_in_file *)

\* str(op_raw).lower().strip(), with a leading "xformop:" removed
NormOpName(raw) ==
  CASE raw \in {"translate", "Translate", "xformOp:translate"} -> "translate"
    [] raw \in {"scale", "xformOp:scale"} -> "scale"
    [] raw \in {"rotateXYZ", "xformOp:rotateXYZ"} -> "rotatexyz"
    [] raw = "xformOp:transform" -> "transform"
    [] OTHER -> raw

\* an entry value: a list (isList) of components, numeric or not
ListValue(items) == [isList |-> TRUE, items |-> items, numeric |-> TRUE]
ScalarValue(x) == [isList |-> FALSE, items |-> <<x>>, numeric |-> TRUE]
TextListValue(items) == [isList |-> TRUE, items |-> items, numeric |-> FALSE]

\* [float(val[0]), float(val[1]), float(val[2])] raises on a short list or
\* on a component that is no number
Float3Raises(val) == Len(val.items) < 3 \/ ~val.numeric

Float3(val) == <<val.items[1], val.items[2], val.items[3]>>

\* the loop over the ops entries: the last entry of a kind wins, the first
\* unsupported entry ends the call
RECURSIVE ParseOps(_, _)
ParseOps(ops, acc) ==
  IF ops = <<>> THEN acc
  ELSE LET e == Head(ops)
           op == NormOpName(e.op)
       IN IF op \in {"translate", "t"} /\ e.value.isList
            THEN IF Float3Raises(e.value) THEN [acc EXCEPT !.status = "raised"]
                 ELSE ParseOps(Tail(ops), [acc EXCEPT !.t = Some(Float3(e.value))])
          ELSE IF op \in {"scale", "s"} /\ e.value.isList
            THEN IF Float3Raises(e.value) THEN [acc EXCEPT !.status = "raised"]
                 ELSE ParseOps(Tail(ops), [acc EXCEPT !.s = Some(Float3(e.value))])
          ELSE IF op \in {"rotatexyz", "r"} /\ e.value.isList
            THEN IF Float3Raises(e.value) THEN [acc EXCEPT !.status = "raised"]
                 ELSE ParseOps(Tail(ops), [acc EXCEPT !.r = Some(Float3(e.value))])
          ELSE [acc EXCEPT !.status = "invalid_params"]

ParseStart == [status |-> "ok", t |-> None, r |-> None, s |-> None]

\* gprim redirection of a supplied scale (Sphere, Cone); Cube keeps the scale
ScaleRedirected(node, s) == IsSome(s) /\ node.type \in {"Sphere", "Cone"}

\* a faulty redirection: the scale taken as the radius, not as the diameter
RedirectScaleAsRadius(node, s) ==
  IF node.type = "Sphere"
    THEN SetAttr(node, None, "radius", ToFix(Val(s)[1]))
  ELSE SetAttr(SetAttr(node, None, "height", ToFix(Val(s)[3])),
               None, "radius", ToFix(Val(s)[1]))

RedirectScale(node, s) ==
  IF node.type = "Sphere"
    THEN SetAttr(node, None, "radius", TimesHalf(ToFix(Val(s)[1])))
  ELSE SetAttr(SetAttr(node, None, "height", ToFix(Val(s)[3])),
               None, "radius", TimesHalf(ToFix(Val(s)[1])))

\* a faulty reconstruction: the order keeps every op that is no matrix op
KeptOpsAll(all, node, setT, setR, setS, scaleFromRefs) ==
  SelectSeq(all, LAMBDA k : k # "transform")

\* the ops of all_ops that the rebuilt order keeps
RECURSIVE KeptOps(_, _, _, _, _, _)
KeptOps(all, node, setT, setR, setS, scaleFromRefs) ==
  IF all = <<>> THEN <<>>
  ELSE LET k == Head(all)
           keep == \/ k = "translate" /\ setT
                   \/ k = "rotate" /\ setR
                   \/ k = "scale" /\ (setS \/ scaleFromRefs
                                      \/ IsSome(ComposedOpValue(node, "scale")))
       IN (IF keep THEN <<k>> ELSE <<>>)
          \o KeptOps(Tail(all), node, setT, setR, setS, scaleFromRefs)

\* a faulty reconstruction: the order keeps every op that is no matrix op
\* once any op is kept
SetRebuiltOrderKeepingAll(node, kept, scale_from_refs) ==
  IF kept # <<>>
    THEN SetXformOpOrder(node, None,
           SelectSeq(ComposedOrder(node), LAMBDA k : k # "transform"))
  ELSE node

\* the op-order reconstruction, from the ops kept of all_ops: the scale op
\* is added when the references give a scale and the order has no scale op
SetRebuiltOrder(node, kept, scale_from_refs) ==
  IF scale_from_refs /\ ~InSeq("scale", kept)
    THEN SetXformOpOrder(AddXformOp(node, None, "scale"), None, Append(kept, "scale"))
  ELSE IF kept # <<>> THEN SetXformOpOrder(node, None, kept)
  ELSE node

ScaleFromRefs(node, setS) ==
  HasAuthoredReferences(node) /\ ~setS /\ IsSome(ComposedOpValue(node, "scale"))

\* a faulty reconstruction: only the ops set in this call are kept
RebuildOpOrderExplicitOnly(node, setT, setR, setS) ==
  SetRebuiltOrder(node,
    SelectSeq(ComposedOrder(node),
              LAMBDA k : \/ k = "translate" /\ setT
                         \/ k = "rotate" /\ setR
                         \/ k = "scale" /\ setS),
    FALSE)

RebuildOpOrder(node, setT, setR, setS) ==
  SetRebuiltOrder(node,
    KeptOps(ComposedOrder(node), node, setT, setR, setS, ScaleFromRefs(node, setS)),
    ScaleFromRefs(node, setS))

\* the ops form, on the node: the gprim redirection of the scale, the
\* authoring through the common API, then the op-order reconstruction
SetXformOps(node, parsed) ==
  IF ScaleRedirected(node, parsed.s)
    THEN RebuildOpOrder(
           XapiSetAll(RedirectScale(node, parsed.s), None, parsed.t, parsed.r, None),
           IsSome(parsed.t), IsSome(parsed.r), FALSE)
  ELSE RebuildOpOrder(XapiSetAll(node, None, parsed.t, parsed.r, parsed.s),
                      IsSome(parsed.t), IsSome(parsed.r), IsSome(parsed.s))

\* a faulty matrix form: a matrix op is added without looking for one
SetXformMatrixAlwaysAdd(node, m) ==
  SetMatrixValue(AddXformOp(node, None, "transform"), None, m)

\* the matrix form, on the node: reuse the matrix op of the order or add one
SetXformMatrix(node, m) ==
  SetMatrixValue(IF InSeq("transform", ComposedOrder(node)) THEN node
                 ELSE AddXformOp(node, None, "transform"),
                 None, m)

\* the ops form: an entry that is unsupported or raises ends the call
SetXformParsed(doc, p, parsed) ==
  IF parsed.status # "ok" THEN Result(parsed.status, doc, FALSE, TRUE)
  ELSE SaveAndReturn([doc EXCEPT ![p.prim_path] = SetXformOps(@, parsed)], p.saveOk)

SetXformInFile(doc, p) ==
  IF p.prim_path = "" THEN Result("invalid_params", doc, FALSE, FALSE)
  ELSE IF p.prim_path \notin DOMAIN doc THEN Result("not_found", doc, FALSE, TRUE)
  ELSE IF IsSome(p.matrix)
    THEN SaveAndReturn([doc EXCEPT ![p.prim_path] = SetXformMatrix(@, Val(p.matrix))],
                       p.saveOk)
  ELSE IF IsSome(p.ops) /\ Val(p.ops) # <<>>
    THEN SetXformParsed(doc, p, ParseOps(Val(p.ops), ParseStart))
  ELSE Result("invalid_params", doc, FALSE, TRUE)

-----------------------------------------------------------------------------
(* tool_get_xform_in_file *)

OpMatrix(node, kind) ==
  LET v == ComposedOpValue(node, kind)
  IN IF ~IsSome(v) THEN Identity
     ELSE CASE kind = "translate" -> TranslateM(Val(v))
            [] kind = "rotate" -> RotateXYZM(Val(v))
            [] kind = "scale" -> ScaleM(Val(v))
            [] OTHER -> Val(v)

\* GetLocalTransformation: the first op of the order is applied last
RECURSIVE OrderMatrix(_, _)
OrderMatrix(node, order) ==
  IF order = <<>> THEN Identity
  ELSE MatMul(OrderMatrix(node, Tail(order)), OpMatrix(node, Head(order)))

LocalTransformation(node) == OrderMatrix(node, ComposedOrder(node))

\* GetLocalToWorldTransform
RECURSIVE LocalToWorld(_, _)
LocalToWorld(doc, n) ==
  IF IsSome(ParentOf(n))
    THEN MatMul(LocalTransformation(doc[n]), LocalToWorld(doc, Val(ParentOf(n))))
  ELSE LocalTransformation(doc[n])

\* _is_identity: an absent value is not the identity
IsIdentityOpt(mo) == IsSome(mo) /\ Val(mo) = Identity

\* first fallback: the node's own matrix op, when its value is not identity
\* (an op without a value gives an absent world matrix)
OwnMatrixFallback(node, world) ==
  IF IsIdentityOpt(world) /\ InSeq("transform", ComposedOrder(node))
     /\ ~IsIdentityOpt(ComposedOpValue(node, "transform"))
    THEN ComposedOpValue(node, "transform")
  ELSE world

\* _authored_transform_matrix
AuthoredTransformMatrix(node) ==
  IF InSeq("transform", ComposedOrder(node))
    THEN ComposedOpValue(node, "transform") ELSE None

\* root -> ... -> node
RECURSIVE Chain(_)
Chain(n) == (IF IsSome(ParentOf(n)) THEN Chain(Val(ParentOf(n))) ELSE <<>>) \o <<n>>

RECURSIVE ChainAcc(_, _, _)
ChainAcc(doc, chain, acc) ==
  IF chain = <<>> THEN acc
  ELSE LET m == AuthoredTransformMatrix(doc[Head(chain)])
       IN IF IsSome(m)
            THEN ChainAcc(doc, Tail(chain),
                          [m |-> MatMul(acc.m, Val(m)),
                           any |-> acc.any \/ Val(m) # Identity])
          ELSE ChainAcc(doc, Tail(chain), acc)

\* second fallback: the accumulated matrix ops of the ancestor chain
ChainFallback(doc, n, world) ==
  LET acc == ChainAcc(doc, Chain(n), [m |-> Identity, any |-> FALSE])
  IN IF IsIdentityOpt(world) /\ acc.any THEN Some(acc.m) ELSE world

\* _m4_to_list: an absent matrix is reported as the identity
M4ToList(mo) == IF IsSome(mo) THEN Val(mo) ELSE Identity

\* the ops list: _m4_to_list is not yet bound where the loop uses it, so the
\* value of a matrix op is reported absent
ReportedOps(node) ==
  [i \in 1..Len(ComposedOrder(node)) |->
     [op |-> ComposedOrder(node)[i],
      value |-> IF ComposedOrder(node)[i] = "transform" THEN None
                ELSE ComposedOpValue(node, ComposedOrder(node)[i])]]

GetXformInFile(doc, p) ==
  IF p.prim_path = "" THEN [code |-> "invalid_params"]
  ELSE IF p.prim_path \notin DOMAIN doc THEN [code |-> "not_found"]
  ELSE LET node == doc[p.prim_path]
           w0 == Some(LocalToWorld(doc, p.prim_path))
           w1 == OwnMatrixFallback(node, w0)
           w2 == ChainFallback(doc, p.prim_path, w1)
       IN [code |-> "ok", ops |-> ReportedOps(node),
           localMatrix |-> M4ToList(Some(LocalTransformation(node))),
           worldMatrix |-> M4ToList(w2)]

-----------------------------------------------------------------------------
(* tool_author_variants_in_file *)

\* _normalize_file_path on the paths the calls use: surrounding blanks are
\* stripped (tier0.py)
NormalizeFilePath(raw) ==
  CASE raw = " B " -> "B"
    [] raw = "  " -> ""
    [] OTHER -> raw

\* truthiness of an optional string / list argument
TruthyStr(o) == IsSome(o) /\ Val(o) # ""
TruthySeq(o) == IsSome(o) /\ Val(o) # <<>>

\* the snapshot of the node's direct references.  Usd.References has no
\* GetAddedOrExplicitItems, so the first method raises and the second reads
\* the root layer's prim spec, concatenating two Sdf list proxies with +;
\* where the binding rejects that, the handler leaves the snapshot empty
\* (captureOk is the outcome of the concatenation).
ExistingRefs(node, captureOk) ==
  IF captureOk
    THEN SelectSeq(node.local.refs, LAMBDA ref : ref.asset # "")
  ELSE <<>>

\* UsdVariantSet::AddVariant: creates the set if absent, idempotent
AddVariant(node, v) ==
  [node EXCEPT !.hasSet = TRUE,
               !.variants = IF InSeq(v, @) THEN @ ELSE Append(@, v)]

\* UsdVariantSet::SetVariantSelection: the name is not checked
SetVariantSelection(node, v) == [node EXCEPT !.sel = Some(v)]

\* UsdReferences::AddReference at the back of the prepended list: an equal
\* item is moved, never duplicated
AddReference(node, tgt, ref) ==
  PutSpec(node, tgt,
    [GetSpec(node, tgt) EXCEPT
       !.refs = Append(SelectSeq(@, LAMBDA x : x # ref), ref)])

\* UsdReferences::ClearReferences on the direct spec
ClearReferences(node) == [node EXCEPT !.local.refs = <<>>]

\* UsdShadeMaterialBindingAPI::UnbindAllBindings: every binding the node
\* has gets an empty direct target list
UnbindAllBindings(node) ==
  IF IsSome(ComposedBind(node)) THEN [node EXCEPT !.local.bind = Some("")]
  ELSE node

\* UsdGeomXformable::ClearXformOpOrder authors an empty direct op order
ClearXformOpOrder(node) == SetXformOpOrder(node, None, <<>>)

\* attr.Clear() on the direct spec
ClearAttr(node, a) == [node EXCEPT !.local.attrs[a] = None]

\* the names of the attributes of an entry (attributes: pairs <<name, value>>)
EntryAttrNames(v) ==
  IF TruthySeq(v.attributes)
    THEN {Val(v.attributes)[i][1] : i \in 1..Len(Val(v.attributes))}
  ELSE {}

RECURSIVE ClearAttrs(_, _)
ClearAttrs(node, names) ==
  IF names = {} THEN node
  ELSE LET a == CHOOSE x \in names : TRUE
       IN ClearAttrs(IF AttrExists(node, a) THEN ClearAttr(node, a) ELSE node,
                     names \ {a})

AnyEntry(vs, P(_)) == \E i \in 1..Len(vs) : P(vs[i])

HasDefaultInArray(vs) == AnyEntry(vs, LAMBDA v : v.name = "default")

HasAssetPath(vs) == AnyEntry(vs, LAMBDA v : TruthyStr(v.asset_path))

ShouldCreateDefault(node, vs) ==
  /\ Len(node.variants) = 0
  /\ HasAssetPath(vs)
  /\ ~HasDefaultInArray(vs)

\* the clearing of direct opinions before the variants are processed
ClearBindings(node, vs) ==
  IF AnyEntry(vs, LAMBDA v : TruthyStr(v.material_path))
    THEN UnbindAllBindings(node) ELSE node

ClearOpOrder(node, vs) ==
  IF AnyEntry(vs, LAMBDA v : IsSome(v.xform) /\ Val(v.xform).truthy)
    THEN ClearXformOpOrder(node) ELSE node

ClearEntryAttrs(node, vs) ==
  ClearAttrs(node, UNION {EntryAttrNames(vs[i]) : i \in 1..Len(vs)})

ClearRefs(node, vs) ==
  IF HasAssetPath(vs) /\ ~ShouldCreateDefault(node, vs)
    THEN ClearReferences(node) ELSE node

ClearLocal(node, vs) ==
  ClearRefs(ClearEntryAttrs(ClearOpOrder(ClearBindings(node, vs), vs), vs), vs)

RECURSIVE AddReferences(_, _, _)
AddReferences(node, tgt, refs) ==
  IF refs = <<>> THEN node
  ELSE AddReferences(AddReference(node, tgt, Head(refs)), tgt, Tail(refs))

\* the "default" variant that keeps the snapshotted references, and the
\* clearing of the direct references afterwards
ClearCaptured(node, existing_refs, clear_local) ==
  IF existing_refs # <<>> /\ clear_local THEN ClearReferences(node) ELSE node

SynthesizeDefault(node, vs, existing_refs, clear_local) ==
  IF ShouldCreateDefault(node, vs)
    THEN ClearCaptured(
           AddReferences(SetVariantSelection(AddVariant(node, "default"), "default"),
                         Some("default"), existing_refs),
           existing_refs, clear_local)
  ELSE IF HasDefaultInArray(vs) THEN ClearCaptured(node, existing_refs, clear_local)
  ELSE node

\* asset_path and internal_path of an entry: the direct keys, else the first
\* item of its references list
EntryAsset(v) ==
  IF TruthyStr(v.asset_path) THEN v.asset_path
  ELSE IF TruthySeq(v.references) THEN Val(v.references)[1].asset_path
  ELSE None

EntryInternal(v) ==
  IF ~TruthyStr(v.asset_path) /\ TruthySeq(v.references)
     /\ ~TruthyStr(v.internal_path)
    THEN Val(v.references)[1].internal_path
  ELSE v.internal_path

\* the internal path of the authored reference: the supplied one, else the
\* default node of the referenced document when it opens and declares one
ResolveInternal(asset, internal) ==
  LET given == IF TruthyStr(internal) /\ Val(internal) # "/" THEN Val(internal)
               ELSE ""
  IN IF given # "" THEN given
     ELSE IF AssetInfo(asset).exists THEN AssetInfo(asset).defaultPrim
     ELSE ""

\* the ops of an xform given in ops form, as the variant loop reads them:
\* unsupported entries are skipped
RECURSIVE ParseVariantOps(_, _)
ParseVariantOps(ops, acc) ==
  IF ops = <<>> THEN acc
  ELSE LET e == Head(ops)
           op == NormOpName(e.op)
       IN IF op \in {"translate", "t"} /\ e.value.isList
            THEN IF Float3Raises(e.value) THEN [acc EXCEPT !.status = "raised"]
                 ELSE ParseVariantOps(Tail(ops), [acc EXCEPT !.t = Some(Float3(e.value))])
          ELSE IF op \in {"scale", "s"} /\ e.value.isList
            THEN IF Float3Raises(e.value) THEN [acc EXCEPT !.status = "raised"]
                 ELSE ParseVariantOps(Tail(ops), [acc EXCEPT !.s = Some(Float3(e.value))])
          ELSE IF op \in {"rotatexyz", "r"} /\ e.value.isList
            THEN IF Float3Raises(e.value) THEN [acc EXCEPT !.status = "raised"]
                 ELSE ParseVariantOps(Tail(ops), [acc EXCEPT !.r = Some(Float3(e.value))])
          ELSE ParseVariantOps(Tail(ops), acc)

\* the common-API authoring of parsed ops inside a variant's edit scope
VariantXformOps(node, tgt, parsed) ==
  XapiSetAll(node, tgt, parsed.t, parsed.r, parsed.s)

\* state of the loop over the entries: the node, the names authored, the ops
\* list bound by the last entry that had one, the error that ended the loop
LoopState(node, created, ops, err) ==
  [node |-> node, created |-> created, ops |-> ops, err |-> err]

\* the attributes of an entry, in order: an attribute the node does not have
\* cannot be created from a Python type, which ends the call
RECURSIVE AuthorAttributes(_, _, _)
AuthorAttributes(st, tgt, attrs) ==
  IF attrs = <<>> \/ st.err # "" THEN st
  ELSE IF ~AttrExists(st.node, Head(attrs)[1])
    THEN [st EXCEPT !.err = "attr_failed"]
  ELSE AuthorAttributes(
         [st EXCEPT !.node = SetAttr(st.node, tgt, Head(attrs)[1], Head(attrs)[2])],
         tgt, Tail(attrs))

\* the ops handling of an entry: the parsed ops are authored through the
\* common API; ops that raise end the call
AuthorParsedOps(st, tgt, parsed) ==
  IF parsed.status # "ok" THEN [st EXCEPT !.err = "variant_failed"]
  ELSE [st EXCEPT !.node = VariantXformOps(@, tgt, parsed)]

\* the ops handling after the matrix branch, which does not bind ops: it
\* reads the ops of an earlier entry, or raises when no entry has bound them
AuthorStaleOps(st, tgt) ==
  IF ~IsSome(st.ops) THEN [st EXCEPT !.err = "variant_failed"]
  ELSE AuthorParsedOps(st, tgt, ParseVariantOps(Val(st.ops), ParseStart))

\* the transform of an entry
AuthorXform(st, tgt, xform) ==
  IF xform.form = "matrix"
    THEN IF AddXformOpFails(st.node, "transform")
           THEN [st EXCEPT !.err = "xform_failed"]
         ELSE AuthorStaleOps(
                [st EXCEPT !.node =
                   SetMatrixValue(AddXformOp(@, tgt, "transform"), tgt, xform.m)],
                tgt)
  ELSE AuthorParsedOps([st EXCEPT !.ops = Some(xform.ops)], tgt,
                       ParseVariantOps(xform.ops, ParseStart))

\* AddVariant, SetVariantSelection, then the variant's edit scope
EnterVariant(st, v) ==
  [st EXCEPT !.node = SetVariantSelection(AddVariant(@, v.name), v.name)]

\* the reference of an entry
EntryReferenceTo(st, tgt, v, norm) ==
  IF norm = "" THEN [st EXCEPT !.err = "invalid_params"]
  ELSE [st EXCEPT !.node =
          AddReference(@, tgt, RefTo(norm, ResolveInternal(norm, EntryInternal(v))))]

EntryReference(st, tgt, v) ==
  IF ~TruthyStr(EntryAsset(v)) THEN st
  ELSE EntryReferenceTo(st, tgt, v, NormalizeFilePath(Val(EntryAsset(v))))

\* the material binding of an entry
EntryMaterial(st, tgt, v) ==
  IF st.err # "" \/ ~TruthyStr(v.material_path) THEN st
  ELSE IF Val(v.material_path) \in Materials
    THEN [st EXCEPT !.node =
            PutSpec(@, tgt, [GetSpec(@, tgt) EXCEPT !.bind = v.material_path])]
  ELSE IF Val(v.material_path) \in NodePaths
    THEN [st EXCEPT !.err = "invalid_params"]
  ELSE [st EXCEPT !.err = "not_found"]

EntryXform(st, tgt, v) ==
  IF st.err # "" \/ ~(IsSome(v.xform) /\ Val(v.xform).truthy) THEN st
  ELSE AuthorXform(st, tgt, Val(v.xform))

EntryAttributes(st, tgt, v) ==
  IF st.err # "" \/ ~TruthySeq(v.attributes) THEN st
  ELSE AuthorAttributes(st, tgt, Val(v.attributes))

EntryDone(st, v) ==
  IF st.err # "" THEN st ELSE [st EXCEPT !.created = Append(@, v.name)]

\* one entry, inside its variant's edit scope
AuthorEntryIn(st, tgt, v) ==
  EntryDone(
    EntryAttributes(
      EntryXform(EntryMaterial(EntryReference(EnterVariant(st, v), tgt, v), tgt, v),
                 tgt, v),
      tgt, v),
    v)

AuthorEntry(st, v) == AuthorEntryIn(st, Some(v.name), v)

RECURSIVE AuthorEntries(_, _)
AuthorEntries(st, vs) ==
  IF vs = <<>> \/ st.err # "" THEN st
  ELSE IF Head(vs).name = "" THEN AuthorEntries(st, Tail(vs))
  ELSE AuthorEntries(AuthorEntry(st, Head(vs)), Tail(vs))

\* a faulty precedence: the last variant authored wins over the synthesized default
FinalSelectionLastFirst(select, createdDefault, created) ==
  IF TruthyStr(select) THEN select
  ELSE IF created # <<>> THEN Some(created[Len(created)])
  ELSE IF createdDefault THEN Some("default")
  ELSE None

\* final selection: select, else "default" when it was synthesized, else the
\* last variant authored
FinalSelection(select, createdDefault, created) ==
  IF TruthyStr(select) THEN select
  ELSE IF createdDefault THEN Some("default")
  ELSE IF created # <<>> THEN Some(created[Len(created)])
  ELSE None

\* the list the call processes: the variants array, else the single variant
\* built from the call's own keys
VariantsToProcess(p) ==
  IF TruthySeq(p.variants) THEN Val(p.variants)
  ELSE <<[p.single EXCEPT !.name = Val(p.variant), !.references = None]>>

\* the call on the node of the opened stage: the node when the call returned
\* and the error that ended it ("" when it reached the save)
SelectFinal(node, final) ==
  IF IsSome(final) THEN SetVariantSelection(node, Val(final)) ELSE node

VariantsOutcome(st, select, createDefault) ==
  [node |-> IF st.err # "" THEN st.node
            ELSE SelectFinal(st.node, FinalSelection(select, createDefault, st.created)),
   err |-> st.err, created |-> st.created, createdDefault |-> createDefault]

PrepareNode(node, vs, existing_refs, clear_local) ==
  SynthesizeDefault(IF clear_local THEN ClearLocal(node, vs) ELSE node,
                    vs, existing_refs, clear_local)

AuthorVariantsWith(node, p, vs) ==
  VariantsOutcome(
    AuthorEntries(
      LoopState(PrepareNode(node, vs, ExistingRefs(node, p.captureOk), p.clear_local),
                <<>>, None, ""),
      vs),
    p.select, ShouldCreateDefault(node, vs))

AuthorVariantsOnNode(node, p) == AuthorVariantsWith(node, p, VariantsToProcess(p))

\* a faulty validation: only the call that supplies neither form is rejected
VariantFormsInvalidNeither(p) == ~TruthyStr(p.variant) /\ ~TruthySeq(p.variants)

\* the single-variant form and the variant-list form exclude each other
VariantFormsInvalid(p) ==
  \/ ~TruthyStr(p.variant) /\ ~TruthySeq(p.variants)
  \/ TruthyStr(p.variant) /\ TruthySeq(p.variants)

\* a faulty error return: the root layer is saved before the error is returned
VariantErrorSaved(code, mem) == Result(code, mem, TRUE, TRUE)

\* return error_response(...) inside the call: nothing is saved
VariantError(code, mem) == Result(code, mem, FALSE, TRUE)

VariantsReturn(doc, p, r) ==
  IF r.err # "" THEN VariantError(r.err, [doc EXCEPT ![p.prim_path] = r.node])
  ELSE SaveAndReturn([doc EXCEPT ![p.prim_path] = r.node], p.saveOk)

AuthorVariantsInFile(doc, p) ==
  IF p.prim_path = "" \/ p.set = "" THEN Result("invalid_params", doc, FALSE, FALSE)
  ELSE IF VariantFormsInvalid(p) THEN Result("invalid_params", doc, FALSE, FALSE)
  ELSE IF p.prim_path \notin DOMAIN doc THEN Result("not_found", doc, FALSE, TRUE)
  ELSE VariantsReturn(doc, p, AuthorVariantsOnNode(doc[p.prim_path], p))

-----------------------------------------------------------------------------
(* tool_batch_set_attribute_values_in_file *)

\* an item value: a list of numbers or a number (ListValue, ScalarValue), a
\* 4x4 matrix, or a list of reference items
MatrixValue(m) == [isList |-> TRUE, items |-> <<>>, numeric |-> TRUE,
                   isMatrix |-> TRUE, m |-> m, isRefs |-> FALSE, refs |-> <<>>]
RefsValue(refs) == [isList |-> TRUE, items |-> <<>>, numeric |-> TRUE,
                    isMatrix |-> FALSE, m |-> Identity, isRefs |-> TRUE, refs |-> refs]
PlainValue(v) == [isList |-> v.isList, items |-> v.items, numeric |-> v.numeric,
                  isMatrix |-> FALSE, m |-> Identity, isRefs |-> FALSE, refs |-> <<>>]

\* an item: the raw prim_path is the node path and, optionally, a suffix
\* ".set:variant"
Item(base, suffix, attr, value) ==
  [base |-> base, suffix |-> suffix, attr |-> attr, value |-> value]

\* the split of the raw prim_path at its last "." when a ":" follows it
VariantCtx(item) == item.suffix

\* len(value) == 3 for a list value
IsList3(value) ==
  value.isList /\ ~value.isMatrix
  /\ (IF value.isRefs THEN Len(value.refs) = 3 ELSE Len(value.items) = 3)

\* the variant edit context of an item: the set and the variant are added;
\* the context object is never entered, so the edit target stays the root
\* layer's direct spec
EnterVariantCtx(node, ctx) ==
  IF IsSome(ctx) THEN AddVariant(node, Val(ctx)) ELSE node

ItemOutcome(node, ok) == [node |-> node, ok |-> ok]

\* a transform shorthand through the common API; the result of the common
\* API call is not looked at
ItemShorthand(node, item) ==
  IF item.attr = "size" \/ item.attr = "xformOp:scale"
    THEN IF Float3Raises(item.value) THEN ItemOutcome(node, FALSE)
         ELSE ItemOutcome(XapiSet(node, None, "scale", Float3(item.value)), TRUE)
  ELSE IF Float3Raises(item.value) THEN ItemOutcome(node, FALSE)
       ELSE ItemOutcome(XapiSet(node, None, "translate", Float3(item.value)), TRUE)

\* a matrix item: the matrix op is looked up or added before the value is
\* read, so a value that is no list of rows fails with the op already added
ItemMatrixOn(node, item) ==
  IF ~item.value.isMatrix THEN ItemOutcome(node, FALSE)
  ELSE ItemOutcome(SetMatrixValue(node, None, item.value.m), TRUE)

ItemMatrix(node, item) ==
  ItemMatrixOn(IF InSeq("transform", ComposedOrder(node)) THEN node
               ELSE AddXformOp(node, None, "transform"),
               item)

\* a references item: the direct references are cleared, then every entry is
\* added; an entry that is no record fails the item where it stands
RECURSIVE ItemAddRefs(_, _)
ItemAddRefs(node, refs) ==
  IF refs = <<>> THEN ItemOutcome(node, TRUE)
  ELSE LET r == Head(refs)
           asset == NormalizeFilePath(Val(r.asset_path))
       IN IF ~r.isDict THEN ItemOutcome(node, FALSE)
          ELSE IF ~TruthyStr(r.asset_path) \/ asset = ""
            THEN ItemAddRefs(node, Tail(refs))
          ELSE ItemAddRefs(
                 AddReference(node, None,
                   RefTo(asset, ResolveInternal(asset, r.internal_path))),
                 Tail(refs))

ItemReferences(node, item) ==
  IF item.value.isRefs THEN ItemAddRefs(ClearReferences(node), item.value.refs)
  ELSE ItemOutcome(ClearReferences(node), FALSE)

\* a plain attribute: set on the direct spec when the node has the attribute
\* and the value is a number
ItemPlain(node, item) ==
  IF item.attr \in AttrNames /\ AttrExists(node, item.attr)
     /\ ~item.value.isList /\ item.value.numeric
    THEN ItemOutcome(SetAttr(node, None, item.attr, item.value.items[1]), TRUE)
  ELSE ItemOutcome(node, FALSE)

\* one item of the batch on the opened stage
ApplyItem(doc, item) ==
  IF item.base = "" \/ item.attr = "" THEN [doc |-> doc, ok |-> FALSE]
  ELSE IF item.base \notin DOMAIN doc THEN [doc |-> doc, ok |-> FALSE]
  ELSE IF item.attr = "variantSets" THEN [doc |-> doc, ok |-> FALSE]
  ELSE LET node == EnterVariantCtx(doc[item.base], VariantCtx(item))
           out == IF (item.attr \in {"xformOp:translate", "xformOp:scale"}
                      /\ item.value.isList)
                     \/ (item.attr = "size" /\ IsList3(item.value))
                    THEN ItemShorthand(node, item)
                  ELSE IF item.attr = "xformOp:transform" /\ item.value.isList
                    THEN ItemMatrix(node, item)
                  ELSE IF item.attr = "references" /\ item.value.isList
                    THEN ItemReferences(node, item)
                  ELSE ItemPlain(node, item)
       IN [doc |-> [doc EXCEPT ![item.base] = out.node], ok |-> out.ok]

\* the loop over the items: every item is processed, its outcome recorded
RECURSIVE ApplyItems(_, _, _)
ApplyItems(doc, items, results) ==
  IF items = <<>> THEN [doc |-> doc, results |-> results]
  ELSE LET r == ApplyItem(doc, Head(items))
       IN ApplyItems(r.doc, Tail(items), Append(results, r.ok))

\* the answer of the batch call: the per-item outcomes returned (None on an
\* error), the outcomes recorded in memory by the loop, and the number of
\* root.Save() calls made
BatchAnswer(res, results, recorded, saves) ==
  [res |-> res, results |-> results, recorded |-> recorded, saves |-> saves]

\* a faulty ending: the recorded outcomes are returned with the save error
BatchSaveKeepingResults(r, saveOk) ==
  IF saveOk THEN BatchAnswer(Result("ok", r.doc, TRUE, TRUE), Some(r.results), r.results, 1)
  ELSE BatchAnswer(Result("save_failed", r.doc, FALSE, TRUE), Some(r.results), r.results, 1)

\* the single root.Save() after the loop
BatchSave(r, saveOk) ==
  IF saveOk THEN BatchAnswer(Result("ok", r.doc, TRUE, TRUE), Some(r.results), r.results, 1)
  ELSE BatchAnswer(Result("save_failed", r.doc, FALSE, TRUE), None, r.results, 1)

BatchSetInFile(doc, p) ==
  IF p.items = <<>>
    THEN BatchAnswer(Result("invalid_params", doc, FALSE, FALSE), None, <<>>, 0)
  ELSE BatchSave(ApplyItems(doc, p.items, <<>>), p.saveOk)

-----------------------------------------------------------------------------
(* Inputs of the calls *)

T0 == <<0, 0, 0>>
T1 == <<1, 2, 3>>
S1 == <<4, 4, 4>>
S2 == <<10, 10, 1>>
R1 == <<90, 0, 0>>
M1 == TranslateM(<<5, 0, 0>>)

Entry(op, value) == [op |-> op, value |-> value]

TranslateOps(t) == <<Entry("translate", ListValue(t))>>
ScaleOps(s) == <<Entry("xformOp:scale", ListValue(s))>>
RotateOps(r) == <<Entry("rotateXYZ", ListValue(r))>>

GoodOpsInputs ==
  {TranslateOps(T0), TranslateOps(T1), ScaleOps(S1), ScaleOps(S2), RotateOps(R1),
   TranslateOps(T1) \o ScaleOps(S1)}

BadOpsInputs ==
  {<<Entry("rotate", ListValue(R1))>>,
   <<Entry("translate", ScalarValue(1))>>,
   <<Entry("scale", ListValue(<<4, 4>>))>>,
   <<Entry("translate", TextListValue(T1))>>,
   TranslateOps(T1) \o <<Entry("xformOp:transform", ListValue(T1))>>}

PrimPathInputs == {"/W", "/W/G", "/Nope"}

XformParams(prim, matrix, ops, saveOk) ==
  [prim_path |-> prim, matrix |-> matrix, ops |-> ops, saveOk |-> saveOk]

SetXformInputs ==
  {XformParams(n, None, o, TRUE) :
     n \in PrimPathInputs,
     o \in {None, Some(<<>>)} \cup {Some(x) : x \in GoodOpsInputs \cup BadOpsInputs}}
  \cup {XformParams(n, Some(M1), o, TRUE) :
     n \in PrimPathInputs, o \in {None, Some(<<>>), Some(TranslateOps(T1))}}
  \cup {XformParams("/W/G", None, Some(TranslateOps(T1)), FALSE),
        XformParams("/W/G", Some(M1), None, FALSE),
        XformParams("", None, Some(TranslateOps(T1)), TRUE)}

GetXformInputs == {[prim_path |-> n] : n \in PrimPathInputs}

\* a variant definition; an absent key is None
VEntry(name, asset, refs, mat, xform, attrs) ==
  [name |-> name, asset_path |-> asset, internal_path |-> None,
   references |-> refs, material_path |-> mat, xform |-> xform,
   attributes |-> attrs]

MatrixXform(m) == [form |-> "matrix", m |-> m, ops |-> <<>>, truthy |-> TRUE]
OpsXform(ops) == [form |-> "ops", m |-> Identity, ops |-> ops, truthy |-> ops # <<>>]

RefItem(asset) == [asset_path |-> Some(asset), internal_path |-> None]

EntryB == VEntry("b", Some("B"), None, None, None, None)
EntryBNested == VEntry("b", None, Some(<<RefItem("B")>>), None, None, None)
EntryCPadded == VEntry("c", Some(" B "), None, None, None, None)
EntryMissing == VEntry("c", Some("M"), None, None, None, None)
EntryBlank == VEntry("c", Some("  "), None, None, None, None)
EntryMat == VEntry("c", None, None, Some("/Mat"), None, None)
EntryNoMat == VEntry("c", None, None, Some("/NoMat"), None, None)
EntryOps == VEntry("b", None, None, None, Some(OpsXform(TranslateOps(T1))), None)
EntryMatrix == VEntry("c", None, None, None, Some(MatrixXform(M1)), None)
EntryAttr == VEntry("c", None, None, None, None, Some(<<<<"radius", ToFix(3)>>>>))
EntryDefault == VEntry("default", Some("B"), None, None, None, None)
EntryDefaultMat == VEntry("default", None, None, Some("/Mat"), None, None)
EntryUnnamed == VEntry("", Some("B"), None, None, None, None)
NoEntry == VEntry("", None, None, None, None, None)

VariantLists ==
  {<<EntryB>>, <<EntryBNested>>, <<EntryB, EntryCPadded>>, <<EntryMissing>>,
   <<EntryB, EntryBlank>>, <<EntryB, EntryMat>>, <<EntryB, EntryNoMat>>,
   <<EntryOps, EntryMatrix>>, <<EntryMatrix>>, <<EntryB, EntryAttr>>,
   <<EntryDefault>>, <<EntryUnnamed>>, <<EntryDefaultMat>>}

VariantParams(prim, variant, single, variants, clear, select, saveOk, captureOk) ==
  [prim_path |-> prim, set |-> SetName, variant |-> variant, single |-> single,
   variants |-> variants, clear_local |-> clear, select |-> select,
   saveOk |-> saveOk, captureOk |-> captureOk]

AuthorVariantsInputs ==
  {VariantParams("/W/G", None, NoEntry, Some(vs), cl, None, TRUE, TRUE) :
     vs \in VariantLists, cl \in BOOLEAN}
  \cup {VariantParams("/W/G", None, NoEntry, Some(vs), cl, Some(sel), TRUE, TRUE) :
     vs \in {<<EntryB>>, <<EntryB, EntryMat>>}, cl \in BOOLEAN, sel \in {"b", "zz"}}
  \cup {VariantParams("/W/G", None, NoEntry, Some(vs), cl, None, TRUE, FALSE) :
     vs \in {<<EntryB>>, <<EntryDefault>>}, cl \in BOOLEAN}
  \cup {VariantParams("/W/G", Some("b"), EntryB, None, TRUE, None, TRUE, TRUE),
        VariantParams("/W/G", Some("b"), EntryB, Some(<<EntryB>>), TRUE, None, TRUE, TRUE),
        VariantParams("/W/G", None, NoEntry, None, TRUE, None, TRUE, TRUE),
        VariantParams("/W/G", Some(""), NoEntry, Some(<<>>), TRUE, None, TRUE, TRUE),
        VariantParams("/Nope", None, NoEntry, Some(<<EntryB>>), TRUE, None, TRUE, TRUE),
        VariantParams("/W/G", None, NoEntry, Some(<<EntryB>>), TRUE, None, FALSE, TRUE)}

BatchRef(asset) == [isDict |-> TRUE, asset_path |-> Some(asset), internal_path |-> None]
BadRef == [isDict |-> FALSE, asset_path |-> None, internal_path |-> None]

ItemTranslate(n) == Item(n, None, "xformOp:translate", PlainValue(ListValue(T1)))
ItemScale(n) == Item(n, None, "xformOp:scale", PlainValue(ListValue(S1)))
ItemSize(n) == Item(n, None, "size", PlainValue(ListValue(S2)))
ItemShortTranslate(n) == Item(n, None, "xformOp:translate", PlainValue(ListValue(<<1, 2>>)))
ItemMatrixOk(n) == Item(n, None, "xformOp:transform", MatrixValue(M1))
ItemMatrixBad(n) == Item(n, None, "xformOp:transform", PlainValue(ListValue(T1)))
ItemRefs(n) == Item(n, None, "references", RefsValue(<<BatchRef("B")>>))
ItemRefsBad(n) == Item(n, None, "references", RefsValue(<<BatchRef("B"), BadRef>>))
ItemRadius(n) == Item(n, None, "radius", PlainValue(ScalarValue(ToFix(3))))
ItemRadiusInVariant(n) == Item(n, Some("b"), "radius", PlainValue(ScalarValue(ToFix(3))))
ItemVariantSets(n) == Item(n, None, "variantSets", PlainValue(ScalarValue(0)))
ItemNoAttr(n) == Item(n, None, "", PlainValue(ScalarValue(0)))

BatchInputs ==
  {<<ItemTranslate("/W/G")>>, <<ItemScale("/W/G")>>, <<ItemSize("/W/G")>>,
   <<ItemMatrixOk("/W/G")>>, <<ItemRefs("/W/G")>>, <<ItemRadius("/W/G")>>,
   <<ItemRadiusInVariant("/W/G")>>,
   <<ItemTranslate("/W"), ItemTranslate("/Nope"), ItemRadius("/W/G")>>,
   <<ItemTranslate("/Nope"), ItemTranslate("/W/G")>>,
   <<ItemMatrixBad("/W/G"), ItemTranslate("/W/G")>>,
   <<ItemTranslate("/W/G"), ItemMatrixBad("/W/G")>>,
   <<ItemRefs("/W/G"), ItemRefsBad("/W/G")>>,
   <<ItemRefsBad("/W/G"), ItemScale("/W")>>,
   <<ItemShortTranslate("/W/G"), ItemMatrixOk("/W/G"), ItemVariantSets("/W/G")>>,
   <<ItemNoAttr("/W/G"), ItemScale("/W/G")>>,
   <<ItemTranslate("/Nope")>>,
   <<>>}

BatchParams(items, saveOk) == [items |-> items, saveOk |-> saveOk]

ApplyBatchInputs ==
  {BatchParams(items, TRUE) : items \in BatchInputs}
  \cup {BatchParams(<<ItemTranslate("/W/G")>>, FALSE)}

-----------------------------------------------------------------------------
(* The documents the tools are started on: a root node /W with a child     *)
(* /W/G of any of the modelled types, with or without a direct reference   *)
(* to document A.                                                          *)

BaseDoc(type, refs) ==
  [n \in NodePaths |->
     IF n = "/W" THEN NewNode("Xform")
     ELSE [NewNode(type) EXCEPT !.local.refs = refs]]

BaseDocs ==
  {BaseDoc(ty, refs) : ty \in NodeTypes, refs \in {<<>>, <<RefTo("A", "/Root")>>}}

\* the record of a call: the tool, its arguments, the document it found, the
\* stage in memory when it returned, and its result
NoCall ==
  [op |-> "none", args |-> <<>>, pre |-> <<>>, mem |-> <<>>, code |-> "none",
   saved |-> FALSE, opened |-> FALSE, out |-> <<>>]

Call(op, args, pre, res, out) ==
  [op |-> op, args |-> args, pre |-> pre, mem |-> res.mem, code |-> res.code,
   saved |-> res.saved, opened |-> res.opened, out |-> out]

\* documents that earlier calls of the tools leave behind
XformedDocs ==
  {SetXformInFile(d, XformParams("/W/G", m, o, TRUE)).mem :
     d \in BaseDocs,
     m \in {None, Some(M1)}, o \in {Some(TranslateOps(T1))}}

VariantDocs ==
  {AuthorVariantsInFile(d,
     VariantParams("/W/G", None, NoEntry, Some(<<EntryOps>>), TRUE, None, TRUE, TRUE)).mem :
     d \in BaseDocs}

InitXform ==
  /\ disk \in BaseDocs \cup VariantDocs
  /\ last = NoCall
  /\ calls = 0

InitVariants ==
  /\ disk \in BaseDocs \cup XformedDocs
  /\ last = NoCall
  /\ calls = 0

-----------------------------------------------------------------------------
(* Actions: one per tool call.  A call that saves replaces the persisted   *)
(* document by the stage it edited; any other call leaves it alone.        *)

SetTransform ==
  \E p \in SetXformInputs :
    \E res \in {SetXformInFile(disk, p)} :
      /\ calls < MaxCalls
      /\ disk' = IF res.saved THEN res.mem ELSE disk
      /\ last' = Call("set_xform", p, disk, res, <<>>)
      /\ calls' = calls + 1

Resolve ==
  \E p \in GetXformInputs :
    \E out \in {GetXformInFile(disk, p)} :
      /\ calls < MaxCalls
      /\ disk' = disk
      /\ last' = Call("get_xform", p, disk,
                      Result(out.code, disk, FALSE, p.prim_path # ""), out)
      /\ calls' = calls + 1

NextXform == SetTransform \/ Resolve

SpecXform == InitXform /\ [][NextXform]_vars

AuthorVariants ==
  \E p \in AuthorVariantsInputs :
    \E res \in {AuthorVariantsInFile(disk, p)} :
      /\ calls < MaxCalls
      /\ disk' = IF res.saved THEN res.mem ELSE disk
      /\ last' = Call("author_variants", p, disk, res, <<>>)
      /\ calls' = calls + 1

NextVariants == AuthorVariants

SpecVariants == InitVariants /\ [][NextVariants]_vars

InitBatch ==
  /\ disk \in BaseDocs \cup XformedDocs
  /\ last = NoCall
  /\ calls = 0

ApplyBatch ==
  \E p \in ApplyBatchInputs :
    \E r \in {BatchSetInFile(disk, p)} :
      /\ calls < MaxCalls
      /\ disk' = IF r.res.saved THEN r.res.mem ELSE disk
      /\ last' = Call("batch_set", p, disk, r.res, r.results)
                  @@ [recorded |-> r.recorded, saves |-> r.saves]
      /\ calls' = calls + 1

NextBatch == ApplyBatch

SpecBatch == InitBatch /\ [][NextBatch]_vars

-----------------------------------------------------------------------------
(* tool_compose_referenced_assembly.  The persisted state is a file system: *)
(* a function from file names to None (no file) or Some(document).  A      *)
(* document has an up-axis ("" when none is authored), a default node (a   *)
(* path, <<>> when none) and its nodes in namespace order; a node path is  *)
(* the sequence of its names.                                              *)

FilePaths ==
  {"/p/scene.usda", "/p/a.usdz", "/p/a.usda", "/q/b.usdz", "/q/b.usda",
   "/p/c.usda", "/p/m.usdz", "/p/m.usda"}

OutputDir == "/p"

\* os.path.isabs
IsAbs(path) == path \in {"/q/b.usdz", "/q/b.usda", "/p/scene.usda"}

\* os.path.normpath(os.path.join(output_dir, src_path))
ResolvedSrcPath(src) == IF IsAbs(src) THEN src ELSE OutputDir \o "/" \o src

\* str(path).lower().endswith(".usdz")
IsUsdz(path) == path \in {"a.usdz", "/p/a.usdz", "/q/b.usdz", "m.usdz", "/p/m.usdz"}

\* os.path.splitext(path)[0]
SplitExt(path) ==
  CASE path = "/p/a.usdz" -> "/p/a"
    [] path = "/q/b.usdz" -> "/q/b"
    [] path = "/p/m.usdz" -> "/p/m"
    [] OTHER -> path

\* os.path.relpath(target, output_dir)
RelPath(target) ==
  CASE target = "/p/a.usda" -> "a.usda"
    [] target = "/p/m.usda" -> "m.usda"
    [] OTHER -> target

\* _basename_noext
BasenameNoExt(path) ==
  CASE path \in {"a.usdz", "a.usda", "/p/a.usdz", "/p/a.usda"} -> "a"
    [] path \in {"/q/b.usdz", "/q/b.usda"} -> "b"
    [] path \in {"c.usda", "/p/c.usda"} -> "c"
    [] path \in {"m.usdz", "m.usda"} -> "m"
    [] path = "/p/scene.usda" -> "scene"
    [] OTHER -> ""

\* Sdf path of a container_root parameter
ParsePrimPath(text) ==
  CASE text = "/World" -> <<"World">>
    [] text = "/Assets" -> <<"Assets">>
    [] text = "/World/Set" -> <<"World", "Set">>
    [] OTHER -> <<text>>

\* dp.GetPath().pathString
RECURSIVE PathString(_)
PathString(path) ==
  IF path = <<>> THEN "" ELSE "/" \o Head(path) \o PathString(Tail(path))

PrimNode(path) == [path |-> path, refs |-> <<>>, rot |-> None]

\* the layer Usd.Stage.CreateNew writes
EmptyDoc == [upAxis |-> "", defaultPrim |-> <<>>, prims |-> <<>>]

AssetDoc(upAxis, defaultPrim, paths) ==
  [upAxis |-> upAxis, defaultPrim |-> defaultPrim,
   prims |-> [i \in 1..Len(paths) |-> PrimNode(paths[i])]]

PrimIndex(doc, path) == {i \in 1..Len(doc.prims) : doc.prims[i].path = path}

HasPrim(doc, path) == PrimIndex(doc, path) # {}

Front(path) == SubSeq(path, 1, Len(path) - 1)

DefineOne(doc, path) ==
  IF HasPrim(doc, path) THEN doc
  ELSE [doc EXCEPT !.prims = Append(@, PrimNode(path))]

\* stage.DefinePrim(path, "Xform"): the node and its missing ancestors
RECURSIVE DefinePrim(_, _)
DefinePrim(doc, path) ==
  IF path = <<>> THEN doc ELSE DefineOne(DefinePrim(doc, Front(path)), path)

\* stage.RemovePrim of every root node
RemoveRootPrims(doc) == [doc EXCEPT !.prims = <<>>]

\* str(up_axis).upper().startswith("Z") / ("Y")
StartsWithZ(up_axis) == up_axis \in {"Z", "z"}
StartsWithY(up_axis) == up_axis \in {"Y", "y"}

\* UsdGeom.SetStageUpAxis as the calls use it: z for a Z name, else y
SetStageUpAxis(doc, up_axis) ==
  [doc EXCEPT !.upAxis = IF StartsWithZ(up_axis) THEN "Z" ELSE "Y"]

\* UsdGeom.GetStageUpAxis: Y where none is authored
GetStageUpAxis(doc) == IF doc.upAxis = "" THEN "Y" ELSE doc.upAxis

\* prim.GetReferences().AddReference on a node of the composed document
AddRefAt(doc, path, ref) ==
  [doc EXCEPT !.prims =
     [i \in 1..Len(@) |->
        IF @[i].path = path
          THEN [@[i] EXCEPT !.refs = Append(SelectSeq(@, LAMBDA x : x # ref), ref)]
        ELSE @[i]]]

\* apply_rotation_to_prim: -90 degrees about X, combined with a rotation
\* the node already has
RotatedNode(node) ==
  [node EXCEPT !.rot = IF IsSome(@) THEN Some(<<Val(@)[1] - 90, Val(@)[2], Val(@)[3]>>)
                       ELSE Some(<<0 - 90, 0, 0>>)]

\* the nodes named "model" among the root nodes and their children
ModelPrims(doc) ==
  {i \in 1..Len(doc.prims) :
     Len(doc.prims[i].path) \in {1, 2}
     /\ doc.prims[i].path[Len(doc.prims[i].path)] = "model"}

\* the compensating rotation: on the model node when there is one, else on
\* every root node
RotateForYUp(doc) ==
  [doc EXCEPT !.prims =
     [i \in 1..Len(@) |->
        IF (ModelPrims(doc) # {} /\ i \in ModelPrims(doc))
           \/ (ModelPrims(doc) = {} /\ Len(@[i].path) = 1)
          THEN RotatedNode(@[i]) ELSE @[i]]]

\* container_root: derived from the output name unless the caller overrides
\* the "/Assets" default
ContainerRoot(p) ==
  IF ~TruthyStr(p.container_root) \/ p.container_root = Some("/Assets")
    THEN IF BasenameNoExt(p.output_path) # "" THEN <<BasenameNoExt(p.output_path)>>
         ELSE <<"Assets">>
  ELSE ParsePrimPath(Val(p.container_root))

\* open-or-create of the output document; CreateNew writes the new layer
OpenOrCreate(fs, p) ==
  IF IsSome(fs[p.output_path])
    THEN IF IsSome(p.upAxis)
           THEN SetStageUpAxis(IF p.clear_existing
                                 THEN RemoveRootPrims(Val(fs[p.output_path]))
                               ELSE Val(fs[p.output_path]),
                               Val(p.upAxis))
         ELSE IF p.clear_existing THEN RemoveRootPrims(Val(fs[p.output_path]))
         ELSE Val(fs[p.output_path])
  ELSE SetStageUpAxis(EmptyDoc, IF IsSome(p.upAxis) THEN Val(p.upAxis) ELSE "Z")

CreatedFs(fs, p) ==
  IF IsSome(fs[p.output_path]) THEN fs
  ELSE [fs EXCEPT ![p.output_path] = Some(EmptyDoc)]

\* state of the loop over the assets: the file system, the output stage in
\* memory, the count of references, the targets exported, the paths of the
\* current asset and its internal path, the error that ended the loop
ComposeState(fs, stage) ==
  [fs |-> fs, stage |-> stage, referenced |-> 0, exports |-> <<>>,
   open |-> "", ref |-> "", internal |-> None, err |-> ""]

\* target of the flattened sibling
FlattenTarget(src) ==
  SplitExt(IF IsAbs(src) THEN src ELSE ResolvedSrcPath(src)) \o ".usda"

RefPathFor(src, target) == IF IsAbs(src) THEN target ELSE RelPath(target)

\* the call converts a Z-up source to Y-up
ConvertsToYUp(source, p) ==
  IsSome(p.upAxis) /\ GetStageUpAxis(source) = "Z" /\ StartsWithY(Val(p.upAxis))

\* a faulty decision: any given up-axis forces the export
ShouldRecreateOnAnyAxis(fs, src, p) ==
  IF ~(p.skip_if_exists /\ IsSome(fs[FlattenTarget(src)])) THEN "yes"
  ELSE IF ~IsSome(p.upAxis) THEN "no"
  ELSE IF ~IsSome(fs[ResolvedSrcPath(src)]) THEN "raise"
  ELSE "yes"

\* should_recreate; the source is opened only when the target is skipped
\* and an up-axis is given, and a source that does not open raises
ShouldRecreate(fs, src, p) ==
  IF ~(p.skip_if_exists /\ IsSome(fs[FlattenTarget(src)])) THEN "yes"
  ELSE IF ~IsSome(p.upAxis) THEN "no"
  ELSE IF ~IsSome(fs[ResolvedSrcPath(src)]) THEN "raise"
  ELSE IF ConvertsToYUp(Val(fs[ResolvedSrcPath(src)]), p) THEN "yes"
  ELSE "no"

\* the existing sibling is kept: its up-axis is updated and saved when one
\* is given
KeepSibling(st, src, p, target) ==
  [st EXCEPT !.fs = IF IsSome(p.upAxis)
                      THEN [@ EXCEPT ![target] = Some(SetStageUpAxis(Val(@), Val(p.upAxis)))]
                    ELSE @,
             !.open = target, !.ref = RefPathFor(src, target)]

\* the document exported: the source with the up-axis and the rotation
Flattened(source, p) ==
  IF ~IsSome(p.upAxis) THEN source
  ELSE IF ConvertsToYUp(source, p)
    THEN RotateForYUp(SetStageUpAxis(source, Val(p.upAxis)))
  ELSE SetStageUpAxis(source, Val(p.upAxis))

\* st.Export(target)
ExportSibling(st, src, p, target) ==
  IF ~IsSome(st.fs[ResolvedSrcPath(src)]) THEN [st EXCEPT !.err = "export_failed"]
  ELSE IF ~p.exportOk THEN [st EXCEPT !.err = "export_failed"]
  ELSE [st EXCEPT !.fs[target] = Some(Flattened(Val(st.fs[ResolvedSrcPath(src)]), p)),
                  !.exports = Append(@, target),
                  !.open = target, !.ref = RefPathFor(src, target)]

FlattenAs(st, src, p, recreate) ==
  IF recreate = "raise" THEN [st EXCEPT !.err = "export_failed"]
  ELSE IF recreate = "yes" THEN ExportSibling(st, src, p, FlattenTarget(src))
  ELSE KeepSibling(st, src, p, FlattenTarget(src))

\* the optional export of a packaged asset to its flattened sibling
FlattenAsset(st, src, p) ==
  IF p.flatten /\ (IsUsdz(src) \/ IsUsdz(ResolvedSrcPath(src)))
    THEN FlattenAs(st, src, p, ShouldRecreate(st.fs, src, p))
  ELSE st

\* the default node of the document at a path; a file that does not open
\* gives none
DefaultPrimAt(fs, path) ==
  IF path \in FilePaths /\ IsSome(fs[path]) THEN Val(fs[path]).defaultPrim ELSE <<>>

\* internal_path of an entry: an explicit null, the stripped text, or ""
EntryInternalPath(a) ==
  IF a.has_internal /\ ~IsSome(a.internal_path) THEN None
  ELSE IF TruthyStr(a.internal_path) THEN Some(NormalizeFilePath(Val(a.internal_path)))
  ELSE Some("")

\* a faulty resolution: the internal path is taken as supplied
ResolveDefaultPrimNever(st, internal) == [st EXCEPT !.internal = internal]

\* an empty internal path resolves to the default node of the document
ResolveDefaultPrim(st, internal) ==
  [st EXCEPT !.internal =
     IF internal \in {Some(""), Some("/")}
       THEN Some(PathString(DefaultPrimAt(st.fs, st.open)))
     ELSE internal]

\* name of the entry's node
AssetName(a, src) ==
  IF TruthyStr(a.name) /\ NormalizeFilePath(Val(a.name)) # ""
    THEN NormalizeFilePath(Val(a.name))
  ELSE BasenameNoExt(src)

WrapperPath(container_root, name) ==
  IF name = container_root[Len(container_root)] THEN container_root
  ELSE Append(container_root, name)

\* name of the child that carries the reference in a layout
RefPrimName(st) ==
  IF DefaultPrimAt(st.fs, st.open) # <<>>
    THEN DefaultPrimAt(st.fs, st.open)[Len(DefaultPrimAt(st.fs, st.open))]
  ELSE IF BasenameNoExt(st.ref) # "" THEN BasenameNoExt(st.ref)
  ELSE "asset"

\* a faulty placement: the reference of a layout entry on the wrapper
RefPrimPathOnWrapper(st, wrapper_path, is_layout) == wrapper_path

\* the node that carries the reference: the wrapper's child in a layout,
\* the wrapper itself for a single asset
RefPrimPath(st, wrapper_path, is_layout) ==
  IF is_layout THEN Append(wrapper_path, RefPrimName(st)) ELSE wrapper_path

AuthoredRef(st) ==
  IF IsSome(st.internal) THEN RefTo(st.ref, Val(st.internal)) ELSE RefTo(st.ref, "")

ReferenceAt(st, path) ==
  [st EXCEPT !.stage = AddRefAt(DefinePrim(@, path), path, AuthoredRef(st)),
             !.referenced = @ + 1]

PlaceAsset(st, a, src, p) ==
  IF st.err # "" THEN st
  ELSE ReferenceAt(ResolveDefaultPrim(st, EntryInternalPath(a)),
                   RefPrimPath(st, WrapperPath(ContainerRoot(p), AssetName(a, src)),
                               Len(p.assets) > 1))

ComposeAssetFrom(st, a, src, p) ==
  PlaceAsset(FlattenAsset([st EXCEPT !.open = ResolvedSrcPath(src), !.ref = src],
                          src, p),
             a, src, p)

\* a faulty loop: a skipped entry is counted as referenced
ComposeAssetCounting(st, a, p) ==
  IF ~TruthyStr(a.asset_path) \/ NormalizeFilePath(Val(a.asset_path)) = ""
    THEN [st EXCEPT !.referenced = @ + 1]
  ELSE ComposeAssetFrom(st, a, NormalizeFilePath(Val(a.asset_path)), p)

\* one entry of assets; an entry without an asset path is skipped
ComposeAsset(st, a, p) ==
  IF ~TruthyStr(a.asset_path) \/ NormalizeFilePath(Val(a.asset_path)) = "" THEN st
  ELSE ComposeAssetFrom(st, a, NormalizeFilePath(Val(a.asset_path)), p)

RECURSIVE ComposeAssets(_, _, _)
ComposeAssets(st, assets, p) ==
  IF assets = <<>> \/ st.err # "" THEN st
  ELSE ComposeAssets(ComposeAsset(st, Head(assets), p), Tail(assets), p)

\* stage.SetDefaultPrim(container_root)
SetDefaultPrim(doc, p) ==
  IF p.set_default /\ HasPrim(doc, ContainerRoot(p))
    THEN [doc EXCEPT !.defaultPrim = ContainerRoot(p)]
  ELSE doc

\* the answer of the call: the file system it leaves, the stage in memory,
\* the count returned and the targets exported
ComposeResult(code, fs, stage, saved, st) ==
  [code |-> code, fs |-> fs, mem |-> stage, saved |-> saved, opened |-> TRUE,
   referenced |-> st.referenced, exports |-> st.exports]

ComposeReturn(st, p) ==
  IF st.err # "" THEN ComposeResult(st.err, st.fs, st.stage, FALSE, st)
  ELSE IF ~p.saveOk
    THEN ComposeResult("save_failed", st.fs, SetDefaultPrim(st.stage, p), FALSE, st)
  ELSE ComposeResult("ok",
         [st.fs EXCEPT ![p.output_path] = Some(SetDefaultPrim(st.stage, p))],
         SetDefaultPrim(st.stage, p), TRUE, st)

ComposeReferencedAssembly(fs, p) ==
  IF p.output_path = "" \/ p.assets = <<>>
    THEN [code |-> "invalid_params", fs |-> fs, mem |-> EmptyDoc, saved |-> FALSE,
          opened |-> FALSE, referenced |-> 0, exports |-> <<>>]
  ELSE ComposeReturn(
         ComposeAssets(
           ComposeState(CreatedFs(fs, p), DefinePrim(OpenOrCreate(fs, p), ContainerRoot(p))),
           p.assets, p),
         p)

\* the calls of tool_compose_referenced_assembly that are explored

AssetEntry(asset_path, name, has_internal, internal_path) ==
  [asset_path |-> asset_path, name |-> name, has_internal |-> has_internal,
   internal_path |-> internal_path]

AssetA == AssetEntry(Some("a.usdz"), None, FALSE, None)
AssetB == AssetEntry(Some("/q/b.usdz"), None, FALSE, None)
AssetC == AssetEntry(Some("c.usda"), None, FALSE, None)
AssetM == AssetEntry(Some("m.usdz"), None, FALSE, None)
AssetBlank == AssetEntry(Some("  "), None, FALSE, None)
AssetNoPath == AssetEntry(None, Some("x"), FALSE, None)
AssetANull == AssetEntry(Some("a.usdz"), None, TRUE, None)
AssetAInner == AssetEntry(Some("a.usdz"), Some("hero"), TRUE, Some("/Root/model"))
AssetCSlash == AssetEntry(Some("c.usda"), Some("scene"), TRUE, Some("/"))
AssetNamedC == AssetEntry(Some("a.usdz"), Some("C"), FALSE, None)
AssetABlankInner == AssetEntry(Some("a.usdz"), Some("x"), TRUE, Some("  "))

ComposeParams(assets, container_root, flatten, upAxis, skip, clear, exportOk, saveOk) ==
  [output_path |-> "/p/scene.usda", assets |-> assets,
   container_root |-> container_root, flatten |-> flatten, upAxis |-> upAxis,
   set_default |-> TRUE, skip_if_exists |-> skip, clear_existing |-> clear,
   exportOk |-> exportOk, saveOk |-> saveOk]

PackagedLists == {<<AssetA>>, <<AssetB>>, <<AssetA, AssetB>>}

OtherLists ==
  {<<AssetA, AssetBlank>>, <<AssetNoPath, AssetC>>, <<AssetC>>, <<AssetM>>,
   <<AssetBlank>>, <<>>, <<AssetANull>>, <<AssetAInner>>, <<AssetCSlash>>,
   <<AssetAInner, AssetC>>, <<AssetCSlash, AssetNamedC>>, <<AssetABlankInner>>}

UpAxisInputs == {None, Some("Y"), Some("Z")}

ComposeInputs ==
  {ComposeParams(l, None, f, u, s, FALSE, TRUE, TRUE) :
     l \in PackagedLists, f \in BOOLEAN, u \in UpAxisInputs, s \in BOOLEAN}
  \cup {ComposeParams(l, None, TRUE, u, TRUE, FALSE, TRUE, TRUE) :
          l \in OtherLists, u \in {None, Some("Y")}}
  \cup {ComposeParams(<<AssetA>>, None, TRUE, None, s, FALSE, e, ~e) :
          s \in BOOLEAN, e \in BOOLEAN}
  \cup {ComposeParams(<<AssetA>>, c, TRUE, None, TRUE, x, TRUE, TRUE) :
          c \in {Some("/Assets"), Some("/World"), Some("/World/Set")}, x \in BOOLEAN}
  \cup {[ComposeParams(<<AssetA>>, None, TRUE, None, TRUE, FALSE, TRUE, TRUE)
           EXCEPT !.output_path = "", !.set_default = FALSE]}

\* the assets on disk before the first call: a Z-up package with a model
\* node, a package without up-axis and default node, a plain document
SourceFiles ==
  [f \in FilePaths |->
     CASE f = "/p/a.usdz" ->
            Some(AssetDoc("Z", <<"Root">>, <<<<"Root">>, <<"Root", "model">>>>))
       [] f = "/q/b.usdz" -> Some(AssetDoc("", <<>>, <<<<"b_geo">>>>))
       [] f = "/p/c.usda" -> Some(AssetDoc("Y", <<"C">>, <<<<"C">>>>))
       [] OTHER -> None]

\* the same with a flattened sibling that an earlier export left
SourceFilesWithSibling ==
  [SourceFiles EXCEPT !["/q/b.usda"] = Some(AssetDoc("", <<>>, <<<<"b_geo">>>>))]

InitCompose ==
  /\ disk \in {SourceFiles, SourceFilesWithSibling}
  /\ last = NoCall
  /\ calls = 0

ComposeAssembly ==
  /\ calls < MaxCalls
  /\ \E p \in ComposeInputs :
       \E res \in {ComposeReferencedAssembly(disk, p)} :
         /\ disk' = res.fs
         /\ last' = Call("compose", p, disk, res,
                         [referenced |-> res.referenced, exports |-> res.exports])
         /\ calls' = calls + 1

NextCompose == ComposeAssembly

SpecCompose == InitCompose /\ [][NextCompose]_vars

-----------------------------------------------------------------------------
(* Properties.  Each is a predicate on the record of the last call, the    *)
(* document it found (last.pre) and the persisted document (disk).         *)

LastIs(op) == last.op = op
LastPrim == last.args.prim_path
PreNode == last.pre[LastPrim]
PostNode == disk[LastPrim]

\* an ops-form SetTransform on an existing node
OpsFormCall ==
  /\ LastIs("set_xform")
  /\ LastPrim \in NodePaths
  /\ ~IsSome(last.args.matrix)
  /\ TruthySeq(last.args.ops)

SuppliedOps == ParseOps(Val(last.args.ops), ParseStart)

MatrixSupplied == IsSome(last.args.matrix)
OpsSupplied == TruthySeq(last.args.ops)

\* C1: SetTransform answers invalid-parameters and neither changes nor saves
\* the document when both matrix and ops are supplied or neither is (an
\* empty ops list is not supplied), and authors only when exactly one is.
C1_ExactlyOneOfMatrixOrOps ==
  (LastIs("set_xform") /\ LastPrim \in NodePaths) =>
    /\ (MatrixSupplied = OpsSupplied) =>
         (last.code = "invalid_params" /\ ~last.saved /\ last.mem = last.pre
          /\ disk = last.pre)
    /\ (last.mem # last.pre) => (MatrixSupplied # OpsSupplied)

\* the variant names and the selection of the variant set of a node
VariantSetOf(node) == [names |-> node.variants, sel |-> node.sel]

NoDuplicates(seq) == \A i, j \in 1..Len(seq) : seq[i] = seq[j] => i = j

\* the persisted document after the same call is made once more
PersistedAfterRepeat ==
  LET again == AuthorVariantsInFile(disk, last.args)
  IN IF again.saved THEN again.mem ELSE disk

\* C2: AuthorVariants called twice in a row with the same arguments leaves
\* the persisted variant set that one call leaves: the same variant names,
\* none twice, and the same selection.
C2_AuthorVariantsIdempotent ==
  (LastIs("author_variants") /\ last.code = "ok") =>
    /\ VariantSetOf(PersistedAfterRepeat[LastPrim]) = VariantSetOf(PostNode)
    /\ NoDuplicates(PersistedAfterRepeat[LastPrim].variants)

HoldsRefTo(node, v, asset) ==
  /\ InSeq(v, node.variants)
  /\ \E i \in 1..Len(node.vspec[v].refs) : node.vspec[v].refs[i].asset = asset

\* the call of the reference-preservation scenario: a node with a direct
\* reference to A and no variant set, the single entry {name b, asset B},
\* no select
PreservationCall ==
  /\ LastIs("author_variants")
  /\ last.code = "ok"
  /\ ~PreNode.hasSet
  /\ \E i \in 1..Len(PreNode.local.refs) : PreNode.local.refs[i].asset = "A"
  /\ ~TruthyStr(last.args.variant)
  /\ last.args.variants = Some(<<EntryB>>)
  /\ ~TruthyStr(last.args.select)

\* C3: on a node with a direct reference to A and no variant set, the single
\* entry {name b, asset B} without select gives a variant "default" holding
\* the reference to A, a variant "b" holding the reference to B, and the
\* selection "default".
C3_ReferencePreservedInDefault ==
  PreservationCall =>
    /\ HoldsRefTo(PostNode, "default", "A")
    /\ HoldsRefTo(PostNode, "b", "B")
    /\ PostNode.sel = Some("default")

\* C4: an AuthorVariants call that returns an error leaves the persisted
\* document exactly as it found it, whatever it had authored in memory.
C4_ErrorPersistsNothing ==
  (LastIs("author_variants") /\ last.code # "ok") =>
    (~last.saved /\ disk = last.pre)

C4_Witness ==
  /\ LastIs("author_variants")
  /\ last.code = "not_found"
  /\ LastPrim \in NodePaths
  /\ InSeq("b", last.mem[LastPrim].variants)
  /\ ~InSeq("b", PreNode.variants)
  /\ disk = last.pre

RemoveAt(seq, i) == SubSeq(seq, 1, i - 1) \o SubSeq(seq, i + 1, Len(seq))

\* what an item writes on its node: the transform ops, the references or
\* the attributes
Footprint(item, node) ==
  IF item.attr \in {"xformOp:translate", "xformOp:scale", "size", "xformOp:transform"}
    THEN <<"ops", node.local.order, node.local.t, node.local.s, node.local.m>>
  ELSE IF item.attr = "references" THEN <<"refs", node.local.refs>>
  ELSE <<"attrs", node.local.attrs>>

SameEffect(item, d1, d2) ==
  item.base \in NodePaths =>
    Footprint(item, d1[item.base]) = Footprint(item, d2[item.base])

\* C5: a failing item of ApplyBatch is reported ok=false and every other
\* item has the outcome and the persisted effect it has in the batch
\* without the failing item.
C5_BatchItemsIndependent ==
  (LastIs("batch_set") /\ last.code = "ok") =>
    \A i \in 1..Len(last.args.items) :
      ~Val(last.out)[i] =>
        LET others == RemoveAt(last.args.items, i)
            alone == ApplyItems(last.pre, others, <<>>)
        IN /\ alone.results = RemoveAt(Val(last.out), i)
           /\ \A j \in 1..Len(others) :
                alone.results[j] => SameEffect(others[j], disk, alone.doc)

\* C6: AuthorVariants answers invalid-parameters, without opening, changing
\* or saving the document, when the single-variant form and the
\* variant-list form are both supplied and when neither is.
C6_VariantFormsExclusive ==
  (LastIs("author_variants")
   /\ (TruthyStr(last.args.variant) = TruthySeq(last.args.variants))) =>
    /\ last.code = "invalid_params"
    /\ ~last.opened /\ ~last.saved
    /\ last.mem = last.pre /\ disk = last.pre

C6_Witness ==
  /\ LastIs("author_variants")
  /\ TruthyStr(last.args.variant) /\ TruthySeq(last.args.variants)
  /\ last.code = "invalid_params"

\* the entries of a call that name a variant
NamedEntries(p) == SelectSeq(VariantsToProcess(p), LAMBDA v : v.name # "")

\* this call synthesized the default variant: no entry is named "default"
\* and the set has the variant "default" only since this call
SynthesizedDefault ==
  /\ ~InSeq("default", PreNode.variants)
  /\ InSeq("default", PostNode.variants)
  /\ \A i \in 1..Len(NamedEntries(last.args)) :
       NamedEntries(last.args)[i].name # "default"

\* C7: after a successful AuthorVariants call the selection is the select
\* argument when given, else "default" when the call synthesized the
\* default variant, else the last variant authored in the call.
C7_FinalSelectionPrecedence ==
  (LastIs("author_variants") /\ last.code = "ok") =>
    IF TruthyStr(last.args.select) THEN PostNode.sel = last.args.select
    ELSE IF SynthesizedDefault THEN PostNode.sel = Some("default")
    ELSE IF NamedEntries(last.args) # <<>>
      THEN PostNode.sel =
             Some(NamedEntries(last.args)[Len(NamedEntries(last.args))].name)
    ELSE PostNode.sel = PreNode.sel

C7_Witness ==
  /\ LastIs("author_variants") /\ last.code = "ok"
  /\ ~TruthyStr(last.args.select)
  /\ SynthesizedDefault
  /\ Len(NamedEntries(last.args)) > 0
  /\ PostNode.sel = Some("default")

\* an ops-form call that supplied a scale and succeeded
ScaleCall(types) ==
  /\ OpsFormCall
  /\ last.code = "ok"
  /\ IsSome(SuppliedOps.s)
  /\ PreNode.type \in types

\* radius = scale.x * 0.5 and, on a cone, height = scale.z
SizeRedirected ==
  /\ IsSome(PostNode.local.attrs["radius"])
  /\ 2 * Val(PostNode.local.attrs["radius"]) = ToFix(Val(SuppliedOps.s)[1])
  /\ PreNode.type = "Cone" =>
       PostNode.local.attrs["height"] = Some(ToFix(Val(SuppliedOps.s)[3]))

\* C8 (as claimed): a scale supplied on a sphere or a cone sets the size
\* attributes and the call authors no xform-scale op: the node's scale op
\* value is untouched and no scale op enters its op order.
C8_ScaleRedirectedNoScaleOp ==
  ScaleCall({"Sphere", "Cone"}) =>
    /\ SizeRedirected
    /\ PostNode.local.s = PreNode.local.s
    /\ InSeq("scale", ComposedOrder(PostNode)) => InSeq("scale", ComposedOrder(PreNode))

\* C8 (amended): a scale supplied on a sphere or a cone sets the size
\* attributes and is not authored as an xform-scale op: the node's scale op
\* value is untouched, and a scale op enters the op order only on a node
\* with references, where the inherited scale is preserved.
C8_ScaleRedirectedNoScaleValue ==
  ScaleCall({"Sphere", "Cone"}) =>
    /\ SizeRedirected
    /\ PostNode.local.s = PreNode.local.s
    /\ InSeq("scale", ComposedOrder(PostNode)) =>
         (InSeq("scale", ComposedOrder(PreNode)) \/ HasAuthoredReferences(PreNode))

C8_Witness ==
  /\ ScaleCall({"Cone"})
  /\ SuppliedOps.s = Some(S2)
  /\ PostNode.local.attrs["radius"] = Some(ToFix(5))
  /\ PostNode.local.attrs["height"] = Some(ToFix(1))
  /\ ~InSeq("scale", ComposedOrder(PostNode))

\* C9: a scale supplied on a cube authors an xform-scale op with that value
\* and leaves every geometric size attribute unchanged.
C9_CubeScaleIsXformScale ==
  ScaleCall({"Cube"}) =>
    /\ PostNode.local.s = SuppliedOps.s
    /\ InSeq("scale", ComposedOrder(PostNode))
    /\ PostNode.local.attrs = PreNode.local.attrs

ResolvedWorld == GetXformInFile(disk, [prim_path |-> LastPrim]).worldMatrix

\* a successful ops-form call whose only entry is a translate
TranslateOnlyCall ==
  /\ OpsFormCall
  /\ last.code = "ok"
  /\ Len(Val(last.args.ops)) = 1
  /\ IsSome(SuppliedOps.t)

PlainNode(doc, n) ==
  /\ \A a \in NodePaths :
       (a # n /\ InSeq(a, Chain(n))) => ComposedOrder(doc[a]) = <<>>
  /\ ~InSeq("transform", ComposedOrder(doc[n]))
  /\ ~IsSome(ComposedOpValue(doc[n], "scale"))

-----------------------------------------------------------------------------
(* Properties of tool_compose_referenced_assembly *)

ComposeCall == last.op = "compose"

\* the asset paths the call names, normalized, in order
NamedSources(p) ==
  [i \in 1..Len(p.assets) |->
     IF TruthyStr(p.assets[i].asset_path)
       THEN NormalizeFilePath(Val(p.assets[i].asset_path)) ELSE ""]

PackagedSources(p) == {src \in Range(NamedSources(p)) : src # "" /\ IsUsdz(src)}

\* the call converts the Z-up source of the target to Y-up
ConvertedTarget(pre, p, target) ==
  \E src \in PackagedSources(p) :
    /\ FlattenTarget(src) = target
    /\ IsSome(pre[ResolvedSrcPath(src)])
    /\ ConvertsToYUp(Val(pre[ResolvedSrcPath(src)]), p)

\* C11: a ComposeAssembly call with flatten and skipIfExists set exports no
\* flattened sibling that already exists (before the call, or from an
\* earlier entry of the same call), unless the call converts the Z-up source
\* of that sibling to Y-up.
C11_SkipExistingSibling ==
  (ComposeCall /\ last.args.flatten /\ last.args.skip_if_exists) =>
    \A i \in 1..Len(last.out.exports) :
      \/ ConvertedTarget(last.pre, last.args, last.out.exports[i])
      \/ /\ ~IsSome(last.pre[last.out.exports[i]])
         /\ \A j \in 1..(i - 1) : last.out.exports[j] # last.out.exports[i]

\* a repeated call, identical in effect, that finds the sibling of its
\* package and exports nothing
C11_Witness ==
  /\ ComposeCall /\ calls = 2 /\ last.code = "ok"
  /\ last.args.flatten /\ last.args.skip_if_exists
  /\ \E src \in PackagedSources(last.args) : IsSome(last.pre[FlattenTarget(src)])
  /\ last.out.exports = <<>>
  /\ last.out.referenced = Len(last.args.assets)
  /\ last.pre[last.args.output_path] = Some(last.mem)

\* the entries of the call that name an asset path
PathEntries(p) == {i \in 1..Len(p.assets) : NamedSources(p)[i] # ""}

\* C12 as stated: a successful ComposeAssembly call returns a count equal to
\* the number of entries of its assets list, on the first call and on a
\* repeated one.
C12_CountIsListLength ==
  (ComposeCall /\ last.code = "ok") =>
    last.out.referenced = Len(last.args.assets)

\* C12, amended: a successful ComposeAssembly call returns a count equal to
\* the number of entries of its assets list that name a non-blank asset
\* path, on the first call and on a repeated one.
C12_CountIsNamedEntries ==
  (ComposeCall /\ last.code = "ok") =>
    last.out.referenced = Cardinality(PathEntries(last.args))

\* a repeated successful call whose list holds an entry without a path
C12_Witness ==
  /\ ComposeCall /\ calls = 2 /\ last.code = "ok"
  /\ last.out.referenced = 1
  /\ Len(last.args.assets) = 2
  /\ IsSome(last.pre[last.args.output_path])

-----------------------------------------------------------------------------
(* Properties of the batch writer's persist *)

BatchCall == last.op = "batch_set"

\* C13: an ApplyBatch call that reaches its items saves the document exactly
\* once, after all of them have an outcome recorded (one per item, also when
\* every item failed); when that save succeeds the document on disk is the
\* one the items left in memory, and when it fails the call returns
\* save_failed without per-item outcomes and the document on disk is
\* unchanged, whatever outcomes had been recorded.
C13_SinglePersistAfterItems ==
  (BatchCall /\ last.opened) =>
    /\ last.saves = 1
    /\ Len(last.recorded) = Len(last.args.items)
    /\ last.args.saveOk =>
         (last.code = "ok" /\ last.saved /\ disk = last.mem
          /\ last.out = Some(last.recorded))
    /\ ~last.args.saveOk =>
         (last.code = "save_failed" /\ ~last.saved /\ disk = last.pre
          /\ last.out = None)

\* a failed save after an item was recorded ok=true and had changed the
\* document in memory
C13_Witness ==
  /\ BatchCall /\ last.code = "save_failed"
  /\ \E i \in 1..Len(last.recorded) : last.recorded[i]
  /\ last.mem # last.pre
  /\ last.out = None

\* a save after every item failed
C13_WitnessAllFailed ==
  /\ BatchCall /\ last.code = "ok" /\ last.saves = 1
  /\ Len(last.recorded) > 0
  /\ \A i \in 1..Len(last.recorded) : ~last.recorded[i]

-----------------------------------------------------------------------------
(* The stage registry and the tools that work on a stage handle:           *)
(* create_stage, get_stage_summary, save_stage, close_stage.  The state is *)
(* the files on disk, the root layers held in memory (stages opened on the *)
(* same file share one layer), the registry from handles to the file of    *)
(* their stage, and, for the properties, the file named by the latest      *)
(* create_stage that returned each handle.                                 *)

MaxStageCalls == 3

StagePaths == {"/p/new.usda", "/p/old.usda", "/p/out.usda"}

\* values of uuid.uuid4().hex[:8]
StageIds == {"a1b2c3d4", "0f0f0f0f"}

\* output_path.strip()
StripPath(raw) ==
  CASE raw = " /p/new.usda " -> "/p/new.usda"
    [] raw = "  " -> ""
    [] OTHER -> raw

StageDoc(upAxis, metersPerUnit) == [upAxis |-> upAxis, metersPerUnit |-> metersPerUnit]

\* the layer Usd.Stage.CreateNew writes
NewStageDoc == StageDoc("", None)

\* Usd.Stage.Open: the layer already in memory, else the file's content
OpenLayer(reg, path) ==
  IF IsSome(reg.layers[path]) THEN Val(reg.layers[path]) ELSE Val(reg.files[path])

\* create_stage on an existing file: upAxis is applied only when given
OpenedLayer(reg, path, p) ==
  IF TruthyStr(p.upAxis) THEN SetStageUpAxis(OpenLayer(reg, path), Val(p.upAxis))
  ELSE OpenLayer(reg, path)

\* create_stage on a new file: Z unless another axis is named, and the
\* metersPerUnit when given
CreatedLayer(p) ==
  [SetStageUpAxis(NewStageDoc, IF IsSome(p.upAxis) THEN Val(p.upAxis) ELSE "Z")
     EXCEPT !.metersPerUnit = IF IsSome(p.metersPerUnit) /\ Val(p.metersPerUnit) # 0
                                THEN p.metersPerUnit ELSE @]

\* a layer stays in memory while a registered stage holds it
HeldPaths(stages) == {Val(stages[h]) : h \in {i \in StageIds : IsSome(stages[i])}}

DropUnheld(reg) ==
  [reg EXCEPT !.layers =
     [f \in StagePaths |-> IF f \in HeldPaths(reg.stages) THEN @[f] ELSE None]]

\* a faulty registry: adding a stage forgets the other handles
RegistryAddOnly(reg, id, path) ==
  DropUnheld([reg EXCEPT !.stages = [h \in StageIds |-> IF h = id THEN Some(path) ELSE None],
                         !.issued[id] = Some(path)])

\* StageRegistry.add with the id that new_id draws; an id already in the
\* registry is overwritten
RegistryAdd(reg, id, path) ==
  DropUnheld([reg EXCEPT !.stages[id] = Some(path), !.issued[id] = Some(path)])

\* StageRegistry.remove
RegistryRemove(reg, id) ==
  IF id \in StageIds
    THEN DropUnheld([reg EXCEPT !.stages[id] = None, !.issued[id] = None])
  ELSE reg

\* StageRegistry.get succeeds
Registered(reg, id) == id \in StageIds /\ IsSome(reg.stages[id])

StageAnswer(code, reg, saved, opened, out) ==
  [code |-> code, reg |-> reg, mem |-> <<>>, saved |-> saved, opened |-> opened,
   out |-> out]

CreateExisting(reg, path, p, id) ==
  StageAnswer("ok", RegistryAdd([reg EXCEPT !.layers[path] = Some(OpenedLayer(reg, path, p))],
                                id, path),
              FALSE, TRUE, Some(id))

CreateNew(reg, path, p, id) ==
  StageAnswer("ok", RegistryAdd([reg EXCEPT !.files[path] = Some(NewStageDoc),
                                            !.layers[path] = Some(CreatedLayer(p))],
                                id, path),
              TRUE, TRUE, Some(id))

CreateAt(reg, path, p, id) ==
  IF path = "" THEN StageAnswer("invalid_params", reg, FALSE, FALSE, None)
  ELSE IF IsSome(reg.files[path]) THEN CreateExisting(reg, path, p, id)
  ELSE CreateNew(reg, path, p, id)

ToolCreateStage(reg, p, id) == CreateAt(reg, StripPath(p.output_path), p, id)

\* root.Export(output_path)
ExportLayer(reg, path, out, ioOk) ==
  IF ioOk THEN StageAnswer("ok", [reg EXCEPT !.files[out] = reg.layers[path]],
                           TRUE, TRUE, Some(out))
  ELSE StageAnswer("export_failed", reg, FALSE, TRUE, None)

\* root.Save(): the layer is written at its own identifier
SaveLayer(reg, path, ioOk) ==
  IF ioOk THEN StageAnswer("ok", [reg EXCEPT !.files[path] = reg.layers[path]],
                           TRUE, TRUE, Some(path))
  ELSE StageAnswer("save_failed", reg, FALSE, TRUE, None)

ToolSaveStage(reg, p) ==
  IF ~TruthyStr(p.stage_id) THEN StageAnswer("invalid_params", reg, FALSE, FALSE, None)
  ELSE IF ~Registered(reg, Val(p.stage_id))
    THEN StageAnswer("stage_not_found", reg, FALSE, FALSE, None)
  ELSE IF TruthyStr(p.output_path) /\ StripPath(Val(p.output_path)) # ""
    THEN ExportLayer(reg, Val(reg.stages[Val(p.stage_id)]), StripPath(Val(p.output_path)),
                     p.ioOk)
  ELSE SaveLayer(reg, Val(reg.stages[Val(p.stage_id)]), p.ioOk)

ToolGetStageSummary(reg, p) ==
  IF ~TruthyStr(p.stage_id) THEN StageAnswer("invalid_params", reg, FALSE, FALSE, None)
  ELSE IF ~Registered(reg, Val(p.stage_id))
    THEN StageAnswer("stage_not_found", reg, FALSE, FALSE, None)
  ELSE StageAnswer("ok", reg, FALSE, TRUE,
         Some(GetStageUpAxis(Val(reg.layers[Val(reg.stages[Val(p.stage_id)])]))))

ToolCloseStage(reg, p) ==
  IF ~TruthyStr(p.stage_id) THEN StageAnswer("invalid_params", reg, FALSE, FALSE, None)
  ELSE StageAnswer("ok", RegistryRemove(reg, Val(p.stage_id)), FALSE, FALSE, None)

\* the calls explored

CreateStageParams(output_path, upAxis, metersPerUnit) ==
  [output_path |-> output_path, upAxis |-> upAxis, metersPerUnit |-> metersPerUnit]

CreateStageInputs ==
  {CreateStageParams(f, u, None) :
     f \in {"/p/new.usda", "/p/old.usda", " /p/new.usda "}, u \in UpAxisInputs}
  \cup {CreateStageParams("/p/new.usda", Some("Y"), Some(1)),
        CreateStageParams("  ", None, None)}

HandleInputs == {Some(h) : h \in StageIds} \cup {Some("deadbeef"), None}

SaveStageInputs ==
  {[stage_id |-> h, output_path |-> o, ioOk |-> k] :
     h \in HandleInputs, o \in {None, Some("/p/out.usda")}, k \in BOOLEAN}

HandleOnlyInputs == {[stage_id |-> h] : h \in HandleInputs}

InitStages ==
  /\ disk = [files |-> [f \in StagePaths |->
                          IF f = "/p/old.usda" THEN Some(StageDoc("Y", None)) ELSE None],
             layers |-> [f \in StagePaths |-> None],
             stages |-> [h \in StageIds |-> None],
             issued |-> [h \in StageIds |-> None]]
  /\ last = NoCall
  /\ calls = 0

StageCall(op, p, res) ==
  /\ disk' = res.reg
  /\ last' = Call(op, p, disk, res, res.out)
  /\ calls' = calls + 1

CreateStage ==
  /\ calls < MaxStageCalls
  /\ \E p \in CreateStageInputs, id \in StageIds :
       \E res \in {ToolCreateStage(disk, p, id)} : StageCall("create_stage", p, res)

SaveStage ==
  /\ calls < MaxStageCalls
  /\ \E p \in SaveStageInputs :
       \E res \in {ToolSaveStage(disk, p)} : StageCall("save_stage", p, res)

GetStageSummary ==
  /\ calls < MaxStageCalls
  /\ \E p \in HandleOnlyInputs :
       \E res \in {ToolGetStageSummary(disk, p)} : StageCall("get_stage_summary", p, res)

CloseStage ==
  /\ calls < MaxStageCalls
  /\ \E p \in HandleOnlyInputs :
       \E res \in {ToolCloseStage(disk, p)} : StageCall("close_stage", p, res)

NextStages == CreateStage \/ SaveStage \/ GetStageSummary \/ CloseStage

SpecStages == InitStages /\ [][NextStages]_vars

\* the handles that create_stage returned and close_stage has not been
\* called with
LiveHandles == {h \in StageIds : IsSome(disk.issued[h])}

HandleCall(ops) == last.op \in ops /\ TruthyStr(last.args.stage_id)

\* the handle of the last call was live when the call was made
OnLiveHandle ==
  Val(last.args.stage_id) \in StageIds /\ IsSome(last.pre.issued[Val(last.args.stage_id)])

\* C14: a handle returned by create_stage stays registered, for the stage
\* of the file that create_stage named, through every later call until
\* close_stage is called with it (a handle that a later create_stage returns
\* again names the later stage).  With such a handle get_stage_summary
\* succeeds, and save_stage succeeds unless the write itself fails; without
\* an output path it writes the stage's layer to the file the handle was
\* created with.
C14_HandleValidUntilClosed ==
  /\ \A h \in LiveHandles : disk.stages[h] = disk.issued[h]
  /\ (HandleCall({"get_stage_summary"}) /\ OnLiveHandle) => last.code = "ok"
  /\ (HandleCall({"save_stage"}) /\ OnLiveHandle /\ last.args.ioOk) =>
       /\ last.code = "ok"
       /\ ~TruthyStr(last.args.output_path) =>
            /\ last.out = last.pre.issued[Val(last.args.stage_id)]
            /\ disk.files[Val(last.out)] = last.pre.layers[Val(last.out)]
            /\ \A f \in StagePaths \ {Val(last.out)} : disk.files[f] = last.pre.files[f]

\* a save without output path through a handle created two calls earlier on
\* a new file, with another call in between; the save brings the up-axis of
\* the stage to the file
C14_Witness ==
  /\ HandleCall({"save_stage"}) /\ OnLiveHandle /\ calls = 3
  /\ last.code = "ok" /\ ~TruthyStr(last.args.output_path)
  /\ last.out = Some("/p/new.usda")
  /\ last.pre.files["/p/new.usda"] = Some(NewStageDoc)
  /\ disk.files["/p/new.usda"] = Some(StageDoc("Y", Some(1)))

-----------------------------------------------------------------------------
(* Properties of the ops form's validation *)

SupportedOpNames == {"translate", "t", "scale", "s", "rotatexyz", "r"}

\* an entry of an unsupported kind, or with a value that is no sequence, is
\* too short or has a component that is no number
MalformedEntry(e) ==
  \/ NormOpName(e.op) \notin SupportedOpNames
  \/ ~e.value.isList
  \/ Float3Raises(e.value)

\* C15: an ops-form SetTransform on an existing node whose ops list holds an
\* entry of an unsupported kind or with a malformed value returns the
\* invalid-parameters error record, changes nothing and saves nothing.
C15_MalformedOpsInvalidParams ==
  (OpsFormCall /\ \E e \in Range(Val(last.args.ops)) : MalformedEntry(e)) =>
    /\ last.code = "invalid_params"
    /\ ~last.saved
    /\ last.mem = last.pre

-----------------------------------------------------------------------------
(* Properties of the variant entries' references *)

\* a variant call with one of the two forms on an existing node
VariantCallOnNode ==
  /\ LastIs("author_variants")
  /\ LastPrim \in NodePaths
  /\ ~VariantFormsInvalid(last.args)

\* the entry names a referenced document that does not exist
NamesMissingDocument(v) ==
  /\ TruthyStr(EntryAsset(v))
  /\ NormalizeFilePath(Val(EntryAsset(v))) # ""
  /\ ~AssetInfo(NormalizeFilePath(Val(EntryAsset(v)))).exists

\* C16: an AuthorVariants call whose first entry names a referenced
\* document that does not exist returns not-found and saves nothing.
C16_MissingDocumentNotFound ==
  (VariantCallOnNode /\ NamesMissingDocument(VariantsToProcess(last.args)[1])) =>
    /\ last.code = "not_found"
    /\ ~last.saved
    /\ disk = last.pre

\* some named entry of the call authors a reference, by a direct asset_path
\* or by a nested references list
AuthorsReference(p) ==
  \E i \in 1..Len(NamedEntries(p)) : TruthyStr(EntryAsset(NamedEntries(p)[i]))

\* the direct references of the node before the call are those of its
\* "default" variant after it
DefaultHoldsSnapshot ==
  /\ InSeq("default", PostNode.variants)
  /\ PostNode.vspec["default"].refs = PreNode.local.refs

\* C17: a successful AuthorVariants call synthesizes the "default" variant,
\* with the node's direct references re-authored in it, exactly when the set
\* had no variant before the call, no entry is named "default" and some
\* entry authors a reference in either entry shape.
C17_DefaultSynthesizedForEitherShape ==
  (VariantCallOnNode /\ last.code = "ok") =>
    /\ SynthesizedDefault <=>
         (Len(PreNode.variants) = 0
          /\ ~HasDefaultInArray(NamedEntries(last.args))
          /\ AuthorsReference(last.args))
    /\ SynthesizedDefault => DefaultHoldsSnapshot

-----------------------------------------------------------------------------
(* Properties of clearLocal *)

\* the authoring kinds that the entries of the call touch
TouchesReference(p) ==
  AnyEntry(VariantsToProcess(p), LAMBDA v : TruthyStr(EntryAsset(v)))

TouchesMaterial(p) ==
  AnyEntry(VariantsToProcess(p), LAMBDA v : TruthyStr(v.material_path))

TouchesXform(p) ==
  AnyEntry(VariantsToProcess(p), LAMBDA v : IsSome(v.xform) /\ Val(v.xform).truthy)

TouchedAttrs(p) ==
  UNION {EntryAttrNames(VariantsToProcess(p)[i]) : i \in 1..Len(VariantsToProcess(p))}

SameXformOpinions(a, b) ==
  /\ a.order = b.order
  /\ a.t = b.t /\ a.r = b.r /\ a.s = b.s /\ a.m = b.m

-----------------------------------------------------------------------------
(* Properties of the transform of a variant entry *)

MatrixEntry(v) ==
  v.name # "" /\ IsSome(v.xform) /\ Val(v.xform).truthy /\ Val(v.xform).form = "matrix"

\* the variant holds one matrix op, with the value m
HoldsMatrixOp(node, name, m) ==
  /\ InSeq(name, node.variants)
  /\ node.vspec[name].m = Some(m)
  /\ IsSome(node.vspec[name].order)
  /\ Len(SelectSeq(Val(node.vspec[name].order), LAMBDA k : k = "transform")) = 1

\* C19: an AuthorVariants call whose entries are all valid succeeds, and
\* each entry with a matrix-form transform leaves in its variant one matrix
\* op with the given value, on the first call and on a repeated one.
C19_MatrixEntryAuthored ==
  (VariantCallOnNode /\ last.args.saveOk
   /\ last.args.variants \in {Some(<<EntryMatrix>>), Some(<<EntryOps, EntryMatrix>>)}) =>
    /\ last.code = "ok"
    /\ \A i \in 1..Len(VariantsToProcess(last.args)) :
         MatrixEntry(VariantsToProcess(last.args)[i]) =>
           HoldsMatrixOp(PostNode, VariantsToProcess(last.args)[i].name,
                         Val(VariantsToProcess(last.args)[i].xform).m)

-----------------------------------------------------------------------------
(* Properties of the ops list that Resolve returns *)

ResolveCall == LastIs("get_xform") /\ last.code = "ok"

\* C20: a successful Resolve returns one entry per transform op of the node,
\* in op order, each with the op's name and its authored value, for a matrix
\* op as for a translate, rotate or scale op.
C20_ReportedOpsAreAuthoredValues ==
  ResolveCall =>
    /\ Len(last.out.ops) = Len(ComposedOrder(PreNode))
    /\ \A i \in 1..Len(last.out.ops) :
         /\ last.out.ops[i].op = ComposedOrder(PreNode)[i]
         /\ last.out.ops[i].value = ComposedOpValue(PreNode, ComposedOrder(PreNode)[i])

-----------------------------------------------------------------------------
(* Properties of the placement of the references of ComposeAssembly *)

ComposeOk == ComposeCall /\ last.code = "ok"

\* the references of the node at a path ("" where there is no such node)
RefsAt(doc, path) ==
  IF HasPrim(doc, path) THEN doc.prims[CHOOSE i \in PrimIndex(doc, path) : TRUE].refs
  ELSE <<>>

\* the output document as the call found it
OutputBefore ==
  IF IsSome(last.pre[last.args.output_path]) /\ ~last.args.clear_existing
    THEN Val(last.pre[last.args.output_path])
  ELSE EmptyDoc

\* the names under which the document of an entry can be referenced: its
\* own path, or its flattened sibling
EntryRefAssets(src) == {src, RefPathFor(src, FlattenTarget(src))}

\* the call's stage holds at the path a reference to the entry's document
RefersFrom(path, src) ==
  \E r \in Range(RefsAt(last.mem, path)) : r.asset \in EntryRefAssets(src)

\* name of the default node of the entry's document, "" when it has none
DefaultNodeName(src) ==
  IF DefaultPrimAt(last.pre, ResolvedSrcPath(src)) = <<>> THEN ""
  ELSE DefaultPrimAt(last.pre, ResolvedSrcPath(src))[
         Len(DefaultPrimAt(last.pre, ResolvedSrcPath(src)))]

\* containerRoot/<name> for entry i of the call
NamedNode(i) ==
  Append(ContainerRoot(last.args),
         AssetName(last.args.assets[i], NamedSources(last.args)[i]))

\* the node that holds the entry: containerRoot itself when the entry's
\* name is the name of containerRoot, else containerRoot/<name>
HolderNode(i) ==
  IF AssetName(last.args.assets[i], NamedSources(last.args)[i])
       = ContainerRoot(last.args)[Len(ContainerRoot(last.args))]
    THEN ContainerRoot(last.args)
  ELSE NamedNode(i)

\* name of the child that carries the reference of entry i in a layout: the
\* default node's name, else the file name of the referenced document
CarrierName(i) ==
  IF DefaultNodeName(NamedSources(last.args)[i]) # ""
    THEN DefaultNodeName(NamedSources(last.args)[i])
  ELSE BasenameNoExt(NamedSources(last.args)[i])

CarrierNode(i) == Append(HolderNode(i), CarrierName(i))

IsLayout == Len(last.args.assets) > 1

\* the wrapper carries no reference that it did not have before the call
NoNewRefAt(path) ==
  Range(RefsAt(last.mem, path)) \subseteq Range(RefsAt(OutputBefore, path))

\* C21 as stated: a successful single-asset call has the reference on
\* containerRoot/<name>; a multi-asset call has, for each entry whose
\* document declares a default node, the reference on the child of
\* containerRoot/<name> named after that node, and no node
\* containerRoot/<name> carries a new reference.
C21_PlacementOnNamedNode ==
  ComposeOk =>
    \A i \in PathEntries(last.args) :
      /\ ~IsLayout => RefersFrom(NamedNode(i), NamedSources(last.args)[i])
      /\ IsLayout =>
           /\ DefaultNodeName(NamedSources(last.args)[i]) # "" =>
                RefersFrom(Append(NamedNode(i), DefaultNodeName(NamedSources(last.args)[i])),
                           NamedSources(last.args)[i])
           /\ NoNewRefAt(NamedNode(i))

\* C21, amended: the node that holds an entry is containerRoot/<name>, or
\* containerRoot itself when <name> is the name of containerRoot.  A
\* successful single-asset call has the reference on the holder; a
\* multi-asset call has it on the holder's child named after the default
\* node of the entry's document, or after the document's file name when it
\* declares none, and a holder carries a new reference only where it is also
\* the carrying child of another entry.
C21_PlacementOnHolder ==
  ComposeOk =>
    \A i \in PathEntries(last.args) :
      /\ ~IsLayout => RefersFrom(HolderNode(i), NamedSources(last.args)[i])
      /\ IsLayout =>
           /\ RefersFrom(CarrierNode(i), NamedSources(last.args)[i])
           /\ \/ NoNewRefAt(HolderNode(i))
              \/ \E j \in PathEntries(last.args) : CarrierNode(j) = HolderNode(i)

\* a multi-asset call on a new output: each entry's reference is on the
\* child of its wrapper, one child named after a default node, and the
\* wrappers carry none
C21_Witness ==
  /\ ComposeOk /\ IsLayout
  /\ ~IsSome(last.pre[last.args.output_path])
  /\ PathEntries(last.args) = {1, 2}
  /\ RefersFrom(<<"scene", "a", "Root">>, "a.usdz")
  /\ RefsAt(last.mem, <<"scene", "a">>) = <<>>
  /\ HasPrim(last.mem, <<"scene", "a">>)
  /\ \A i \in {1, 2} : NoNewRefAt(HolderNode(i)) /\ RefsAt(last.mem, CarrierNode(i)) # <<>>

-----------------------------------------------------------------------------
(* Properties of the internal path of the references of ComposeAssembly *)

\* the node that carries the reference of entry i
ReferenceNode(i) == IF IsLayout THEN CarrierNode(i) ELSE HolderNode(i)

\* the node holds a reference to the entry's document with the internal
\* path ("" for none)
RefersWith(i, internal) ==
  \E r \in Range(RefsAt(last.mem, ReferenceNode(i))) :
    r.asset \in EntryRefAssets(NamedSources(last.args)[i]) /\ r.prim = internal

ExplicitNull(a) == a.has_internal /\ ~IsSome(a.internal_path)

\* omitted, or the empty text
OmittedOrEmpty(a) == ~ExplicitNull(a) /\ ~TruthyStr(a.internal_path)

\* the path of the default node of the entry's document, "" when none
DefaultNodePath(i) ==
  PathString(DefaultPrimAt(last.pre, ResolvedSrcPath(NamedSources(last.args)[i])))

\* C22 as stated: the reference of each entry has no internal path for an
\* explicit null, the default node of its document for an omitted or empty
\* internalPath when the document declares one, and the supplied path
\* unchanged otherwise.
C22_InternalPathVerbatim ==
  ComposeOk =>
    \A i \in PathEntries(last.args) :
      /\ ExplicitNull(last.args.assets[i]) => RefersWith(i, "")
      /\ (OmittedOrEmpty(last.args.assets[i]) /\ DefaultNodePath(i) # "") =>
           RefersWith(i, DefaultNodePath(i))
      /\ TruthyStr(last.args.assets[i].internal_path) =>
           RefersWith(i, Val(last.args.assets[i].internal_path))

\* the supplied text without surrounding blanks names a node
NamesNode(a) ==
  TruthyStr(a.internal_path)
  /\ NormalizeFilePath(Val(a.internal_path)) \notin {"", "/"}

\* C22, amended: the reference of each entry has no internal path for an
\* explicit null; the supplied path without surrounding blanks when that
\* is neither empty nor "/"; and in every other case (omitted, empty, blank
\* or "/") the default node of its document, or no internal path when the
\* document declares none.
C22_InternalPathResolved ==
  ComposeOk =>
    \A i \in PathEntries(last.args) :
      /\ ExplicitNull(last.args.assets[i]) => RefersWith(i, "")
      /\ NamesNode(last.args.assets[i]) =>
           RefersWith(i, NormalizeFilePath(Val(last.args.assets[i].internal_path)))
      /\ (~ExplicitNull(last.args.assets[i]) /\ ~NamesNode(last.args.assets[i])) =>
           RefersWith(i, DefaultNodePath(i))

\* a call with a supplied path on one entry and a default node resolved for
\* the other
C22_Witness ==
  /\ ComposeOk /\ PathEntries(last.args) = {1, 2}
  /\ NamesNode(last.args.assets[1]) /\ RefersWith(1, "/Root/model")
  /\ OmittedOrEmpty(last.args.assets[2]) /\ RefersWith(2, "/C")

-----------------------------------------------------------------------------
(* Properties of the op-order reconstruction *)

\* a successful ops-form SetTransform on an existing node
OpsFormOk == OpsFormCall /\ last.code = "ok"

\* a scale value is visible on the node through its references
ScaleThroughReferences(node) ==
  HasAuthoredReferences(node) /\ IsSome(FirstSome(RefScales(node)))

\* C23: after a successful ops-form SetTransform that supplies no scale, on
\* a node with references through which a scale value is visible, the op
\* order authored on the node contains a scale op and the node's scale value
\* is the one visible before the call.
C23_InheritedScaleKept ==
  (OpsFormOk /\ ~IsSome(SuppliedOps.s) /\ ScaleThroughReferences(PreNode)) =>
    /\ IsSome(PostNode.local.order)
    /\ InSeq("scale", Val(PostNode.local.order))
    /\ IsSome(ComposedOpValue(PostNode, "scale"))
    /\ ComposedOpValue(PostNode, "scale") = ComposedOpValue(PreNode, "scale")

\* a translate-only call on a node whose reference gives the scale: the
\* authored order holds the translate and the scale
C23_Witness ==
  /\ OpsFormOk /\ ~IsSome(SuppliedOps.s) /\ IsSome(SuppliedOps.t)
  /\ ScaleThroughReferences(PreNode)
  /\ ~IsSome(PreNode.local.order)
  /\ PostNode.local.order = Some(<<"translate", "scale">>)
  /\ ComposedOpValue(PostNode, "scale") = Some(<<2, 2, 2>>)

-----------------------------------------------------------------------------
(* Properties of the batch writer's items *)

\* a batch of one item that was reported ok
SingleItemOk ==
  /\ BatchCall /\ last.code = "ok"
  /\ Len(last.args.items) = 1
  /\ Val(last.out) = <<TRUE>>

TheItem == last.args.items[1]

IsShorthand(item) ==
  \/ item.attr \in {"xformOp:translate", "xformOp:scale"} /\ item.value.isList
  \/ item.attr = "size" /\ IsList3(item.value)

\* the SetTransform call with the op that corresponds to a shorthand item
ShorthandAsOps(item) ==
  <<Entry(IF item.attr = "xformOp:translate" THEN "translate" ELSE "scale",
          [isList |-> item.value.isList, items |-> item.value.items,
           numeric |-> item.value.numeric])>>

ShorthandAsSetTransform(doc, item) ==
  SetXformInFile(doc, XformParams(item.base, None, Some(ShorthandAsOps(item)), TRUE))

\* C24: a batch item that sets a transform shorthand (translate, scale or a
\* 3-component size) leaves its node in the state the SetTransform call with
\* the corresponding op leaves it in, for every node type.
C24_ShorthandAsSetTransform ==
  (SingleItemOk /\ IsShorthand(TheItem) /\ ~IsSome(TheItem.suffix)) =>
    /\ ShorthandAsSetTransform(last.pre, TheItem).code = "ok"
    /\ disk[TheItem.base] = ShorthandAsSetTransform(last.pre, TheItem).mem[TheItem.base]

\* C26: a batch item reported ok=false leaves the document unchanged by that
\* item: the persisted document is the one the same batch without that item
\* produces.
C26_FailedItemLeavesNoTrace ==
  (BatchCall /\ last.code = "ok") =>
    \A i \in 1..Len(last.args.items) :
      ~Val(last.out)[i] =>
        disk = ApplyItems(last.pre, RemoveAt(last.args.items, i), <<>>).doc

\* C29: a batch item whose prim_path carries a ".set:variant" suffix authors
\* its edit inside that variant: the node's direct opinion for the edited
\* attribute is unchanged and the variant's spec holds the value.
C29_SuffixedItemEditsVariant ==
  (SingleItemOk /\ IsSome(TheItem.suffix) /\ TheItem.attr \in AttrNames) =>
    /\ disk[TheItem.base].local.attrs = last.pre[TheItem.base].local.attrs
    /\ InSeq(Val(TheItem.suffix), disk[TheItem.base].variants)
    /\ GetSpec(disk[TheItem.base], TheItem.suffix).attrs[TheItem.attr]
         = Some(TheItem.value.items[1])

-----------------------------------------------------------------------------
(* Sequences of transform edits on one node: SetTransform calls in both    *)
(* forms and batch matrix edits, on a node that starts with no ops.        *)

MaxOpsCalls == 4

OpsNodeInputs == {p \in SetXformInputs : p.prim_path = "/W/G" /\ p.saveOk}

MatrixBatchInputs ==
  {BatchParams(items, TRUE) :
     items \in {<<ItemMatrixOk("/W/G")>>, <<ItemMatrixBad("/W/G")>>,
                <<ItemMatrixOk("/W/G"), ItemMatrixOk("/W/G")>>}}

InitOps ==
  /\ disk \in {BaseDoc(ty, <<>>) : ty \in NodeTypes}
  /\ last = NoCall
  /\ calls = 0

SetTransformOnNode ==
  \E p \in OpsNodeInputs :
    \E res \in {SetXformInFile(disk, p)} :
      /\ calls < MaxOpsCalls
      /\ disk' = IF res.saved THEN res.mem ELSE disk
      /\ last' = Call("set_xform", p, disk, res, <<>>)
      /\ calls' = calls + 1

BatchMatrixEdit ==
  \E p \in MatrixBatchInputs :
    \E r \in {BatchSetInFile(disk, p)} :
      /\ calls < MaxOpsCalls
      /\ disk' = IF r.res.saved THEN r.res.mem ELSE disk
      /\ last' = Call("batch_set", p, disk, r.res, r.results)
      /\ calls' = calls + 1

NextOps == SetTransformOnNode \/ BatchMatrixEdit

SpecOps == InitOps /\ [][NextOps]_vars

OpKinds == {"translate", "rotate", "scale", "transform"}

CountOf(kind, order) == Cardinality({i \in 1..Len(order) : order[i] = kind})

\* C25: after any sequence of SetTransform calls (matrix form and ops form)
\* and batch matrix edits on a node that starts with no ops, the node's op
\* order holds at most one translate, one rotate, one scale and one matrix
\* op.
C25_AtMostOneOpPerKind ==
  \A n \in NodePaths : \A k \in OpKinds :
    /\ CountOf(k, ComposedOrder(disk[n])) <= 1
    /\ IsSome(disk[n].local.order) => CountOf(k, Val(disk[n].local.order)) <= 1

\* a matrix edit on a node whose matrix op an ops-form call had taken out
\* of the order: the op is added once more, and once only
C25_Witness ==
  /\ last.op \in {"set_xform", "batch_set"} /\ last.code = "ok"
  /\ IsSome(last.pre["/W/G"].local.m)
  /\ last.pre["/W/G"].local.order = Some(<<"translate">>)
  /\ disk["/W/G"].local.order = Some(<<"translate", "transform">>)

-----------------------------------------------------------------------------
(* Properties of the variant set after AuthorVariants *)

VariantsOk ==
  LastIs("author_variants") /\ last.code = "ok" /\ LastPrim \in NodePaths

\* C28: after every successful AuthorVariants call the selection of the
\* variant set, when one is authored, names a variant that is a member of
\* the set.
C28_SelectionIsMember ==
  (VariantsOk /\ IsSome(PostNode.sel)) =>
    InSeq(Val(PostNode.sel), PostNode.variants)

\* the entries of the last call name pairwise different variants
DistinctNames(vs) == \A i, j \in 1..Len(vs) : vs[i].name = vs[j].name => i = j

\* the translate, rotate and scale values an entry defines itself
EntryDefinesOps(v) ==
  IsSome(v.xform) /\ Val(v.xform).truthy /\ Val(v.xform).form = "ops"

\* what the entry leaves undefined is not authored in its variant
OwnDefinitionOnly(v, before, after) ==
  /\ ~EntryDefinesOps(v) =>
       /\ after.t = before.t /\ after.r = before.r /\ after.s = before.s
  /\ ~IsSome(EntryAsset(v)) => after.refs = before.refs
  /\ ~TruthyStr(v.material_path) => after.bind = before.bind
  /\ ~TruthySeq(v.attributes) => after.attrs = before.attrs

\* C27: in a multi-variant AuthorVariants call what is authored in a
\* variant's scope is determined by that entry's own definition: a
\* transform value, reference, binding or attribute value the entry does not
\* define is not authored in its variant.
C27_VariantScopeFromOwnEntry ==
  (VariantsOk /\ DistinctNames(NamedEntries(last.args))) =>
    \A i \in 1..Len(NamedEntries(last.args)) :
      OwnDefinitionOnly(NamedEntries(last.args)[i],
                        PreNode.vspec[NamedEntries(last.args)[i].name],
                        PostNode.vspec[NamedEntries(last.args)[i].name])

-----------------------------------------------------------------------------
(* Properties of the rebuilt op order *)

\* the scale the ops form authors as an op: none when it is redirected
ScaleAsOp(node, s) == IF ScaleRedirected(node, s) THEN None ELSE s

\* the node after the authoring of the ops form, before the reconstruction
AuthoredBeforeRebuild(node, parsed) ==
  IF ScaleRedirected(node, parsed.s)
    THEN XapiSetAll(RedirectScale(node, parsed.s), None, parsed.t, parsed.r, None)
  ELSE XapiSetAll(node, None, parsed.t, parsed.r, parsed.s)

\* current_ops of the reconstruction
CurrentOps(node, parsed) ==
  KeptOps(ComposedOrder(AuthoredBeforeRebuild(node, parsed)),
          AuthoredBeforeRebuild(node, parsed),
          IsSome(parsed.t), IsSome(parsed.r), IsSome(ScaleAsOp(node, parsed.s)),
          ScaleFromRefs(AuthoredBeforeRebuild(node, parsed),
                        IsSome(ScaleAsOp(node, parsed.s))))

\* the call reaches SetXformOpOrder: an op is kept, or the scale of the
\* references is added
RebuildsOrder ==
  /\ OpsFormOk
  /\ \/ CurrentOps(PreNode, SuppliedOps) # <<>>
     \/ ScaleFromRefs(AuthoredBeforeRebuild(PreNode, SuppliedOps),
                      IsSome(ScaleAsOp(PreNode, SuppliedOps.s)))

RebuiltOrder == Val(PostNode.local.order)

\* C30: an ops-form SetTransform that rebuilds the op order keeps in it a
\* translate op only if translate was supplied and a rotate op only if
\* rotate was supplied (one authored before and not mentioned is removed),
\* keeps a scale op that was in the order with a value, and never keeps a
\* matrix op.
C30_RebuiltOrderKeepsSuppliedOnly ==
  RebuildsOrder =>
    /\ IsSome(PostNode.local.order)
    /\ InSeq("translate", RebuiltOrder) => IsSome(SuppliedOps.t)
    /\ InSeq("rotate", RebuiltOrder) => IsSome(SuppliedOps.r)
    /\ (InSeq("scale", ComposedOrder(PreNode))
        /\ IsSome(ComposedOpValue(PreNode, "scale"))) => InSeq("scale", RebuiltOrder)
    /\ ~InSeq("transform", RebuiltOrder)
    /\ ComposedOrder(PostNode) = RebuiltOrder

\* a translate-only call on a node whose order held a rotate op: the
\* rebuilt order holds the translate and no rotate
C30_Witness ==
  /\ RebuildsOrder
  /\ IsSome(SuppliedOps.t) /\ ~IsSome(SuppliedOps.r)
  /\ InSeq("rotate", ComposedOrder(PreNode))
  /\ InSeq("translate", RebuiltOrder)
  /\ ~InSeq("rotate", RebuiltOrder)

====
